---- MODULE Spec2Model ----
(***************************************************************************)
(* The proxy pool of src/proxy_rotation.py (class ProxyManager): the proxy *)
(* file, the list of proxies, the rotation index, the statistics dict and  *)
(* the retrying request.                                                   *)
(*                                                                         *)
(* Representation.  A Python str is the sequence of its characters, so "A" *)
(* is <<"A">> and the empty str is <<>>.  An Optional value is a sequence  *)
(* of length at most one: None is <<>>, the value v is <<v>>.  A dict is   *)
(* the sequence of its entries in insertion order (Python dicts keep it).  *)
(* A float that the code computes by division is the exact fraction        *)
(* [num, den] in lowest terms.  time.time() reads the variable now, which  *)
(* advances while a network request is outstanding.  The proxy file is the *)
(* sequence of its lines, each of which ends with a newline.               *)
(*                                                                         *)
(* Grain.  Two threads share the object.  A step of the model is the code  *)
(* a thread runs between two points where the interpreter can hand over to *)
(* the other thread: the entry of a Python function, the back-jump of a    *)
(* loop, the return of a built-in call (len, time.time, dict.items) and    *)
(* input/output (open, a read of the file, close, print, requests.get).    *)
(* The loads and stores of a statement that makes no call are one step.    *)
(***************************************************************************)
EXTENDS Integers, Sequences, FiniteSets

VARIABLES
    file,           \* the file at proxy_file_path: None, or <<its lines>>
    proxies,        \* self.proxies
    current_index,  \* self.current_index (0-based, as in the code)
    proxy_stats,    \* self.proxy_stats, entries in insertion order
    now,            \* the clock time.time() reads
    last,           \* the last call that ended: its arguments, what it
                    \* returned and did
    frames,         \* per thread, the call it is inside (Idle if none)
    work,           \* the work the object has done, in the units of MaxWork
    recorded,       \* per proxy, the update_proxy_stats calls made for it
    rotation,       \* how many proxies the sequential strategy has handed out
    loads,          \* how many times load_proxies has run
    callers         \* the callers that share the object concurrently, each
                    \* with its place in request_with_proxy_rotation and
                    \* its local variables (none where calls come in turn)

vars == <<file, proxies, current_index, proxy_stats, now, last, frames, work,
         recorded, rotation, loads, callers>>

-----------------------------------------------------------------------------
(* Bounds of the model *)

\* attempts a caller may allow: max_retries ranges over 0..MaxRetries
MaxRetries == 2
\* the work one object does after its construction: a request weighs 4, any
\* other call 2, so that 6 allows three calls, or a request and one more call
MaxWork == 6

-----------------------------------------------------------------------------
(* Python values *)

None == <<>>
Some(v) == <<v>>

\* Python truthiness of an Optional[str]: None and '' are both falsy
Truthy(opt) == opt # None /\ opt[1] # <<>>

RECURSIVE Gcd(_, _)
Gcd(a, b) == IF b = 0 THEN a ELSE Gcd(b, a % b)

\* the fraction n/d (d > 0, n >= 0) in lowest terms
Frac(n, d) ==
    LET g == Gcd(n, d)
    IN  [num |-> n \div g, den |-> d \div g]

\* a < b on fractions
FracLess(a, b) == a.num * b.den < b.num * a.den

-----------------------------------------------------------------------------
(* The proxy file *)

\* the three lines load_proxies writes when the file is missing
TemplateFile ==
    << <<"#", " ", "A", "d", "d", " ", "y", "o", "u", "r", " ", "p", "r", "o",
         "x", "i", "e", "s", " ", "h", "e", "r", "e", ",", " ", "o", "n", "e",
         " ", "p", "e", "r", " ", "l", "i", "n", "e", " ", "i", "n", " ", "t",
         "h", "e", " ", "f", "o", "r", "m", "a", "t", ":">>,
       <<"#", " ", "h", "t", "t", "p", ":", "/", "/", "i", "p", ":", "p", "o",
         "r", "t">>,
       <<"#", " ", "h", "t", "t", "p", "s", ":", "/", "/", "u", "s", "e", "r",
         "n", "a", "m", "e", ":", "p", "a", "s", "s", "w", "o", "r", "d", "@",
         "i", "p", ":", "p", "o", "r", "t">> >>

\* csv.reader on one line without quote characters: the fields between commas;
\* an empty line has no field at all
RECURSIVE CsvRow(_)
CsvRow(line) ==
    IF line = <<>> THEN <<>>
    ELSE LET commas == {i \in 1..Len(line) : line[i] = ","}
         IN  IF commas = {} THEN <<line>>
             ELSE LET c == CHOOSE i \in commas : \A j \in commas : i <= j
                      rest == SubSeq(line, c + 1, Len(line))
                  IN  <<SubSeq(line, 1, c - 1)>>
                        \o (IF rest = <<>> THEN << <<>> >> ELSE CsvRow(rest))

\* str.strip()
RECURSIVE Strip(_)
Strip(s) ==
    IF s = <<>> THEN s
    ELSE IF Head(s) = " " THEN Strip(Tail(s))
    ELSE IF s[Len(s)] = " " THEN Strip(SubSeq(s, 1, Len(s) - 1))
    ELSE s

\* [row[0].strip() for row in reader if row]
RECURSIVE ReadProxies(_)
ReadProxies(lines) ==
    IF lines = <<>> THEN <<>>
    ELSE LET row == CsvRow(Head(lines))
         IN  (IF row = <<>> THEN <<>> ELSE <<Strip(row[1])>>)
               \o ReadProxies(Tail(lines))

\* the length of a file of these lines, each line ending with a newline
RECURSIVE FileSize(_)
FileSize(lines) ==
    IF lines = <<>> THEN 0 ELSE Len(Head(lines)) + 1 + FileSize(Tail(lines))

\* what a read at `offset` gets of a file of these lines: the lines from
\* there to the end of the file, the first of them from the offset on;
\* nothing at or after the end of the file
RECURSIVE ReadFrom(_, _)
ReadFrom(lines, offset) ==
    IF lines = <<>> THEN <<>>
    ELSE IF offset > Len(Head(lines))
    THEN ReadFrom(Tail(lines), offset - Len(Head(lines)) - 1)
    ELSE <<SubSeq(Head(lines), offset + 1, Len(Head(lines)))>> \o Tail(lines)

-----------------------------------------------------------------------------
(* The statistics dict *)

ZeroAvg == [num |-> 0, den |-> 1]

StatsEntry(k, s, f, lu, avg) ==
    [key |-> k, success |-> s, failure |-> f, last_used |-> lu,
     avg_response_time |-> avg]

\* key in d
HasKey(d, k) == \E i \in 1..Len(d) : d[i].key = k

\* the position of key k in d
KeyPos(d, k) == CHOOSE i \in 1..Len(d) : d[i].key = k

\* d[k]
Lookup(d, k) == d[KeyPos(d, k)]

\* d[k] = e: an existing key keeps its place, a new key goes last
SetItem(d, e) ==
    IF HasKey(d, e.key) THEN [d EXCEPT ![KeyPos(d, e.key)] = e]
    ELSE Append(d, e)

-----------------------------------------------------------------------------
(* The object.  m is the ProxyManager as a step of a call finds it, with   *)
(* the clock and what the call has done so far:                            *)
(*   proxies, current_index, proxy_stats   the fields of self              *)
(*   now                                   the clock                       *)
(*   sel    the proxies get_proxy has returned                             *)
(*   net    the network requests issued, each <<scheme, proxy>>            *)
(*   upd    the update_proxy_stats calls made, each <<proxy, success, rt>> *)
(*   out    the lines printed                                              *)
(* c is the record of the call: its arguments, its local variables and the *)
(* place (pc) where it goes on.  The operators below are the pieces of the *)
(* code that the interpreter runs without letting another thread in: it    *)
(* can switch threads when a function written in Python is entered, at the *)
(* jump back of a loop, after a call of a built-in function (len,          *)
(* time.time, dict.items) has returned, and while a thread waits for the   *)
(* outside (open, a read of the file, close, print, requests.get); it does *)
(* not switch between the loads and stores of a statement that makes no    *)
(* call.                                                                   *)

Emit(m, line) == [m EXCEPT !.out = Append(@, line)]

\* the fields of the object and the clock, without what a call has done
Fields(m) ==
    [proxies |-> m.proxies, current_index |-> m.current_index,
     proxy_stats |-> m.proxy_stats, now |-> m.now]

\* best_proxy and best_score before line 100 has run
NoBest == [proxy |-> <<>>, score |-> [num |-> -1, den |-> 1]]

\* the call recorded in c has ended: it raised or returned as given
Ended(c, raised, ret) == [c EXCEPT !.pc = "done", !.raised = raised, !.ret = ret]

\* the proxy of the attempt under way
Chosen(m) == m.sel[Len(m.sel)]

\* c without the local variables of get_proxy and _get_best_performing_proxy
Returned(c) ==
    [c EXCEPT !.chosen = None, !.index = 0, !.clock = 0, !.best = NoBest,
              !.pos = 0, !.size = 0]

-----------------------------------------------------------------------------
(* load_proxies *)

\* the open of line 46, or lines 64-65 when there is no file: gives the
\* object, the file as found on disk, and where the call goes on (at the
\* first read of the file, or in the print of line 65)
load_proxies_open(m, found) ==
    IF found = None
    THEN [m |-> Emit(m, "Proxy file not found"), file |-> None,
          pc |-> "print not found"]
    ELSE [m |-> m, file |-> found, pc |-> "read"]

\* line 48 from one read of the file to the next.  The file object reads what
\* the file holds, as it is now, from the offset it has reached (c.offset)
\* to the end, and the list comprehension takes the rows of that (c.rows is
\* the list built so far); a read that gets nothing is the end of the file
\* and of the comprehension, and the store of line 48 is next.
load_proxies_read(c, lines) ==
    LET chunk == ReadFrom(lines, c.offset)
    IN  IF chunk = <<>> THEN [c EXCEPT !.offset = 0, !.pc = "store"]
        ELSE [c EXCEPT !.rows = @ \o ReadProxies(chunk),
                       !.offset = FileSize(lines), !.pc = "read"]

\* line 48 on a file that nobody writes meanwhile: the list it builds
RECURSIVE load_proxies_rows(_, _)
load_proxies_rows(c, lines) ==
    IF c.pc = "store" THEN c.rows
    ELSE load_proxies_rows(load_proxies_read(c, lines), lines)

\* the store of line 48, once the file is read: self.proxies becomes the
\* list built from the file, whatever the list is by then; the with block
\* ends and the file is closed
load_proxies_assign(m, rows) == [m EXCEPT !.proxies = rows]

\* lines 50-53, once the file is closed: the test of the list as it is then,
\* and the print
load_proxies_print(m) ==
    Emit(m, IF m.proxies = <<>> THEN "Warning: No proxies found in the file."
            ELSE "Loaded proxies.")

\* lines 57-62 with setdefault: a proxy that has a record keeps it
load_proxies_record_keeping(d, proxy) ==
    IF HasKey(d, proxy) THEN d
    ELSE Append(d, StatsEntry(proxy, 0, 0, None, ZeroAvg))

\* lines 57-62: the all-zero record of one slot is stored
load_proxies_record(d, proxy) ==
    SetItem(d, StatsEntry(proxy, 0, 0, None, ZeroAvg))

\* lines 56-62 run without another thread in between
RECURSIVE InitStats(_, _)
InitStats(d, ps) ==
    IF ps = <<>> THEN d
    ELSE InitStats(load_proxies_record(d, Head(ps)), Tail(ps))

\* one turn of the loop of lines 56-62.  After the print the loop starts on
\* the list as it is then (c.rows is what is left of it); the call ends with
\* its last turn.
load_proxies_loop(m, c) ==
    LET rows == IF c.pc = "loop" THEN m.proxies ELSE c.rows
    IN  IF rows = <<>> THEN [m |-> m, c |-> Ended(c, None, None)]
        ELSE LET m1 == [m EXCEPT !.proxy_stats = load_proxies_record(@, Head(rows))]
             IN  IF Tail(rows) = <<>> THEN [m |-> m1, c |-> Ended(c, None, None)]
                 ELSE [m |-> m1, c |-> [c EXCEPT !.rows = Tail(rows), !.pc = "record"]]

\* load_proxies after the print of line 65: the open of line 67 leaves the
\* file empty
load_proxies_create == Some(<<>>)

\* lines 68-70 and the end of the with block: the three lines are in the
\* file when it is closed
load_proxies_template == Some(TemplateFile)

\* load_proxies run without another thread in between, as in the
\* constructor; gives the object and the file
load_proxies(m, found) ==
    LET r == load_proxies_open(m, found)
    IN  IF r.pc = "print not found"
        THEN [m |-> r.m, file |-> load_proxies_template]
        ELSE LET rows == load_proxies_rows([pc |-> r.pc, rows |-> <<>>,
                                            offset |-> 0], found[1])
                 p == load_proxies_print(load_proxies_assign(r.m, rows))
             IN  [m |-> [p EXCEPT !.proxy_stats = InitStats(@, p.proxies)],
                  file |-> r.file]

-----------------------------------------------------------------------------
(* request_with_proxy_rotation: the loop *)

\* LoopTest that puts the statistics back as the call found them when the
\* retries are used up
LoopTestRollingBack(m, c) ==
    IF c.retries < c.max_retries
    THEN [m |-> m, c |-> [c EXCEPT !.pc = "get_proxy"]]
    ELSE [m |-> [Emit(m, "Failed after retries.") EXCEPT
                    !.proxy_stats = IF c.in_turn THEN c.before.proxy_stats ELSE @],
          c |-> Ended(c, None, <<None, None>>)]

\* LoopTest with the test of line 183 made after the body: the first attempt
\* is made whatever max_retries is
LoopTestOnceAtLeast(m, c) ==
    IF c.retries < c.max_retries \/ c.retries = 0
    THEN [m |-> m, c |-> [c EXCEPT !.pc = "get_proxy"]]
    ELSE [m |-> Emit(m, "Failed after retries."),
          c |-> Ended(c, None, <<None, None>>)]

\* line 183, with retries as the loop has left it: the call goes on to
\* get_proxy (line 184), or leaves by lines 212-213
LoopTest(m, c) ==
    IF c.retries < c.max_retries
    THEN [m |-> m, c |-> [c EXCEPT !.pc = "get_proxy"]]
    ELSE [m |-> Emit(m, "Failed after retries."),
          c |-> Ended(c, None, <<None, None>>)]

-----------------------------------------------------------------------------
(* update_proxy_stats.  The arguments of the call under way are c.proxy,   *)
(* c.success and c.response_time.                                          *)

\* update_proxy_stats returns to its caller: the call ends if it was made
\* from outside; in request_with_proxy_rotation line 205 returns the
\* response after a success, and lines 210 and 183 follow a failure
Updated(m, c) ==
    IF c.op = "update_proxy_stats" THEN [m |-> m, c |-> Ended(c, None, None)]
    ELSE LET c1 == [c EXCEPT !.proxy = None, !.success = FALSE,
                             !.response_time = None, !.clock = 0]
         IN  IF c.success
             THEN [m |-> m,
                   c |-> Ended(c1, None, <<Some("response"), Some(Chosen(m))>>)]
             ELSE LoopTest(m, [c1 EXCEPT !.retries = @ + 1])

\* lines 136-145 with line 137 moved under the test of line 138: a success
\* without a response time is not counted
update_proxy_stats_uncounted(stats, success, response_time) ==
    IF success
    THEN IF response_time # None
         THEN LET s1 == [stats EXCEPT !.success = @ + 1]
                  total == s1.success + s1.failure
                  avg == s1.avg_response_time
              IN  [s1 EXCEPT !.avg_response_time =
                     Frac(avg.num * (total - 1) + response_time[1] * avg.den,
                          avg.den * total)]
         ELSE stats
    ELSE [stats EXCEPT !.failure = @ + 1]

\* lines 136-145 with the average taken over the successes alone
update_proxy_stats_over_successes(stats, success, response_time) ==
    IF success
    THEN LET s1 == [stats EXCEPT !.success = @ + 1]
             total == s1.success
             avg == s1.avg_response_time
         IN  IF response_time # None
             THEN [s1 EXCEPT !.avg_response_time =
                     Frac(avg.num * (total - 1) + response_time[1] * avg.den,
                          avg.den * total)]
             ELSE s1
    ELSE [stats EXCEPT !.failure = @ + 1]

\* lines 136-145 with the average also updated on a failure that comes with
\* a response time
update_proxy_stats_failure_timed(stats, success, response_time) ==
    LET s1 == IF success THEN [stats EXCEPT !.success = @ + 1]
              ELSE [stats EXCEPT !.failure = @ + 1]
        total == s1.success + s1.failure
        avg == s1.avg_response_time
    IN  IF response_time # None
        THEN [s1 EXCEPT !.avg_response_time =
                Frac(avg.num * (total - 1) + response_time[1] * avg.den,
                     avg.den * total)]
        ELSE s1

\* lines 136-145 on the record `stats` of the proxy: the count, and the
\* running average of a success that comes with a response time
update_proxy_stats_count(stats, success, response_time) ==
    IF success
    THEN LET s1 == [stats EXCEPT !.success = @ + 1]
             total == s1.success + s1.failure
             avg == s1.avg_response_time
         IN  IF response_time # None
             THEN [s1 EXCEPT !.avg_response_time =
                     Frac(avg.num * (total - 1) + response_time[1] * avg.den,
                          avg.den * total)]
             ELSE s1
    ELSE [stats EXCEPT !.failure = @ + 1]

\* a new record with last_used None, as the records of load_proxies have
update_proxy_stats_record_unstamped(proxy, clock) ==
    StatsEntry(proxy, 0, 0, None, ZeroAvg)

\* lines 127-132: the record of a proxy that has none, `clock` being what
\* time.time() returned in line 130
update_proxy_stats_record(proxy, clock) ==
    StatsEntry(proxy, 0, 0, Some(clock), ZeroAvg)

\* lines 134-145 that also write last_used on every call
update_proxy_stats_rest_restamped(m, c) ==
    LET proxy == c.proxy[1]
        stats == [Lookup(m.proxy_stats, proxy) EXCEPT !.last_used = Some(m.now)]
        new == update_proxy_stats_count(stats, c.success, c.response_time)
    IN  Updated([m EXCEPT !.proxy_stats = SetItem(@, new),
                          !.upd = Append(@, <<proxy, c.success, c.response_time>>)],
                c)

\* lines 134-145 and the return: the record of the proxy is looked up and
\* changed
update_proxy_stats_rest(m, c) ==
    LET proxy == c.proxy[1]
        stats == Lookup(m.proxy_stats, proxy)
        new == update_proxy_stats_count(stats, c.success, c.response_time)
    IN  Updated([m EXCEPT !.proxy_stats = SetItem(@, new),
                          !.upd = Append(@, <<proxy, c.success, c.response_time>>)],
                c)

\* line 127, after time.time() has returned: the new record is stored under
\* the proxy, in the place of a record another thread may have stored there
\* meanwhile; then lines 134-145
update_proxy_stats_store(m, c) ==
    update_proxy_stats_rest(
        [m EXCEPT !.proxy_stats =
            SetItem(@, update_proxy_stats_record(c.proxy[1], c.clock))],
        c)

\* update_proxy_stats(proxy, success, response_time) from line 126: with a
\* record of the proxy in the dict, the whole call; without one, the test and
\* the call of time.time() of line 130
update_proxy_stats(m, c, proxy, success, response_time) ==
    LET c1 == [c EXCEPT !.proxy = Some(proxy), !.success = success,
                        !.response_time = response_time]
    IN  IF HasKey(m.proxy_stats, proxy) THEN update_proxy_stats_rest(m, c1)
        ELSE [m |-> m, c |-> [c1 EXCEPT !.clock = m.now, !.pc = "new record"]]

-----------------------------------------------------------------------------
(* get_proxy and _get_best_performing_proxy.  The local variable proxy of  *)
(* get_proxy is c.chosen, the value line 92 is about to store c.index, the *)
(* value time.time() returned c.clock; best_proxy and best_score are       *)
(* c.best, and the dict iterator of line 103 is c.pos (the entries it has  *)
(* given) with c.size (the length of the dict when the loop began).        *)

\* success / (success + failure), 0 for a proxy never tried
Score(stats) ==
    LET total == stats.success + stats.failure
    IN  IF total = 0 THEN ZeroAvg ELSE Frac(stats.success, total)

\* lines 104-113 with the comparison of line 111 turned round
BestStepReversed(best, stats) ==
    LET score == Score(stats)
    IN  IF FracLess(score, best.score) THEN [proxy |-> stats.key, score |-> score]
        ELSE best

\* lines 104-113: one turn of the loop, on the entry `stats` of the dict
BestStep(best, stats) ==
    LET score == Score(stats)
    IN  IF FracLess(best.score, score) THEN [proxy |-> stats.key, score |-> score]
        ELSE best

\* the loop of lines 103-113 over the entries d, run without another thread
\* in between
RECURSIVE BestScan(_, _)
BestScan(d, best) ==
    IF d = <<>> THEN best.proxy ELSE BestScan(Tail(d), BestStep(best, Head(d)))

\* _get_best_performing_proxy run without another thread in between
get_best_performing_proxy(m) ==
    BestScan(m.proxy_stats, [NoBest EXCEPT !.proxy = m.proxies[1]])

\* get_proxy comes back to its caller, raising or returning.  The call ends
\* if it was made from outside.  In request_with_proxy_rotation an
\* exception leaves the call (line 207 does not catch it), a value that is
\* not true ends it by lines 186-188, and with a proxy it goes on to
\* line 190.
Got(m, c, raised, ret) ==
    IF raised # None THEN [m |-> m, c |-> Ended(Returned(c), raised, None)]
    ELSE IF c.op = "get_proxy" THEN [m |-> m, c |-> Ended(Returned(c), None, ret)]
    ELSE IF ~Truthy(ret)
    THEN [m |-> Emit(m, "No proxies available."),
          c |-> Ended(Returned(c), None, <<None, None>>)]
    ELSE [m |-> m, c |-> [Returned(c) EXCEPT !.pc = "start_time"]]

\* the record of c with the attempt that begins: the draw of random.choice
\* and, for a request, the object as the attempt finds it
Attempt(m, c, pick) ==
    [c EXCEPT !.picks = Append(@, pick),
              !.at_attempt = IF c.op = "get_proxy" THEN @ ELSE Fields(m)]

\* get_proxy_select with line 92 advancing the index without the modulo
get_proxy_select_no_wrap(m, c, pick) ==
    LET c1 == Attempt(m, c, pick)
    IN  IF m.proxies = <<>> THEN Got(m, c1, None, None)
        ELSE IF c.rotation_strategy = "random"
        THEN [m |-> m, c |-> [c1 EXCEPT !.chosen = Some(m.proxies[pick]),
                                        !.pc = "time"]]
        ELSE IF c.rotation_strategy = "performance"
        THEN [m |-> m, c |-> [c1 EXCEPT !.pc = "best"]]
        ELSE IF ~(m.current_index < Len(m.proxies))
        THEN Got(m, c1, Some("IndexError"), None)
        ELSE [m |-> m,
              c |-> [c1 EXCEPT !.chosen = Some(m.proxies[m.current_index + 1]),
                               !.index = m.current_index + 1,
                               !.pc = "store index"]]

\* get_proxy_select with 'random' served by the rotation index like
\* 'sequential'
get_proxy_select_random_rotating(m, c, pick) ==
    LET c1 == Attempt(m, c, pick)
    IN  IF m.proxies = <<>> THEN Got(m, c1, None, None)
        ELSE IF c.rotation_strategy = "performance"
        THEN [m |-> m, c |-> [c1 EXCEPT !.pc = "best"]]
        ELSE IF ~(m.current_index < Len(m.proxies))
        THEN Got(m, c1, Some("IndexError"), None)
        ELSE [m |-> m,
              c |-> [c1 EXCEPT !.chosen = Some(m.proxies[m.current_index + 1]),
                               !.index = (m.current_index + 1) % Len(m.proxies),
                               !.pc = "store index"]]

\* get_proxy_select without line 92: the sequential strategy leaves the index
get_proxy_select_sticky(m, c, pick) ==
    LET c1 == Attempt(m, c, pick)
    IN  IF m.proxies = <<>> THEN Got(m, c1, None, None)
        ELSE IF c.rotation_strategy = "random"
        THEN [m |-> m, c |-> [c1 EXCEPT !.chosen = Some(m.proxies[pick]),
                                        !.pc = "time"]]
        ELSE IF c.rotation_strategy = "performance"
        THEN [m |-> m, c |-> [c1 EXCEPT !.pc = "best"]]
        ELSE IF ~(m.current_index < Len(m.proxies))
        THEN Got(m, c1, Some("IndexError"), None)
        ELSE [m |-> m,
              c |-> [c1 EXCEPT !.chosen = Some(m.proxies[m.current_index + 1]),
                               !.index = m.current_index,
                               !.pc = "store index"]]

\* get_proxy from line 82 to its first call: the test of lines 82-83; for
\* 'random' the slot that random.choice draws (pick) from the list as it is;
\* for 'performance' nothing more, _get_best_performing_proxy is entered next;
\* otherwise line 91 and, of line 92, the value of
\* (self.current_index + 1) % len(self.proxies), which is stored after len
\* has returned
get_proxy_select(m, c, pick) ==
    LET c1 == Attempt(m, c, pick)
    IN  IF m.proxies = <<>> THEN Got(m, c1, None, None)
        ELSE IF c.rotation_strategy = "random"
        THEN [m |-> m, c |-> [c1 EXCEPT !.chosen = Some(m.proxies[pick]),
                                        !.pc = "time"]]
        ELSE IF c.rotation_strategy = "performance"
        THEN [m |-> m, c |-> [c1 EXCEPT !.pc = "best"]]
        ELSE IF ~(m.current_index < Len(m.proxies))
        THEN Got(m, c1, Some("IndexError"), None)
        ELSE [m |-> m,
              c |-> [c1 EXCEPT !.chosen = Some(m.proxies[m.current_index + 1]),
                               !.index = (m.current_index + 1) % Len(m.proxies),
                               !.pc = "store index"]]

\* line 92, the store of the index, and the call of time.time() of line 95
get_proxy_advance(m, c) ==
    [m |-> [m EXCEPT !.current_index = c.index],
     c |-> [c EXCEPT !.index = 0, !.clock = m.now, !.pc = "stamp"]]

\* the call of time.time() of line 95, after random.choice has returned
get_proxy_time(m, c) ==
    [m |-> m, c |-> [c EXCEPT !.clock = m.now, !.pc = "stamp"]]

\* lines 100-103 up to the call of items(): best_proxy = self.proxies[0],
\* of the list as it is now
get_best_performing_proxy_start(m, c) ==
    IF m.proxies = <<>> THEN Got(m, c, Some("IndexError"), None)
    ELSE [m |-> m,
          c |-> [c EXCEPT !.best = [NoBest EXCEPT !.proxy = m.proxies[1]],
                          !.pc = "items"]]

\* the loop of lines 103-113 from one jump back to the next.  The iterator
\* is made when the loop begins and remembers the length of the dict; asked
\* for an entry it raises RuntimeError when the dict has another length
\* (a record was added meanwhile), gives the next entry, or ends the loop:
\* then line 115 returns best_proxy and get_proxy calls time.time() (line 95)
get_best_performing_proxy_next(m, c) ==
    LET size == IF c.pc = "items" THEN Len(m.proxy_stats) ELSE c.size
        pos == IF c.pc = "items" THEN 0 ELSE c.pos
    IN  IF Len(m.proxy_stats) # size THEN Got(m, c, Some("RuntimeError"), None)
        ELSE IF pos = size
        THEN [m |-> m,
              c |-> [c EXCEPT !.chosen = Some(c.best.proxy), !.best = NoBest,
                              !.pos = 0, !.size = 0, !.clock = m.now,
                              !.pc = "stamp"]]
        ELSE [m |-> m,
              c |-> [c EXCEPT !.best = BestStep(@, m.proxy_stats[pos + 1]),
                              !.pos = pos + 1, !.size = size, !.pc = "for"]]

\* get_proxy_stamp without the write of line 95: last_used is left as it was
get_proxy_stamp_unstamped(m, c) ==
    LET proxy == c.chosen[1]
    IN  IF ~HasKey(m.proxy_stats, proxy) THEN Got(m, c, Some("KeyError"), None)
        ELSE Got([m EXCEPT !.sel = Append(@, proxy)], c, None, Some(proxy))

\* line 95 after time.time() has returned, and line 96: the record of the
\* proxy is looked up, last_used is written and the proxy returned
get_proxy_stamp(m, c) ==
    LET proxy == c.chosen[1]
    IN  IF ~HasKey(m.proxy_stats, proxy) THEN Got(m, c, Some("KeyError"), None)
        ELSE Got([m EXCEPT !.proxy_stats[KeyPos(m.proxy_stats, proxy)].last_used
                             = Some(c.clock),
                           !.sel = Append(@, proxy)],
                 c, None, Some(proxy))

-----------------------------------------------------------------------------
(* request_with_proxy_rotation: one attempt *)

\* format_proxy_for_requests: {scheme: proxy}, as the pair <<scheme, proxy>>
format_proxy_for_requests(proxy) ==
    LET at == {i \in 1..(Len(proxy) - 2) : SubSeq(proxy, i, i + 2) = <<":", "/", "/">>}
        scheme == IF at = {} THEN <<"h", "t", "t", "p">>
                  ELSE SubSeq(proxy, 1, (CHOOSE i \in at : \A j \in at : i <= j) - 1)
    IN  <<scheme, proxy>>

\* lines 181-184 and get_proxy up to its first call: the call as it begins
IssueRequest(m, c, pick) ==
    LET w == LoopTest(m, c)
    IN  IF w.c.pc = "done" THEN w ELSE get_proxy_select(w.m, w.c, pick)

\* lines 190-194: the proxy is formatted, start_time read and requests.get
\* called, in which the thread waits for the network
StartRequest(m, c) ==
    [m |-> [m EXCEPT !.net = Append(@, format_proxy_for_requests(Chosen(m)))],
     c |-> [c EXCEPT !.start_time = m.now, !.pc = "requests.get"]]

\* RequestReturns with `except Exception` in line 207: every exception is
\* printed, recorded and retried
RequestReturnsCatchAll(m, c, o, clock) ==
    LET m1 == [m EXCEPT !.now = clock]
        c1 == [c EXCEPT !.script = Append(@, o)]
    IN  IF o.kind = "ok" THEN [m |-> m1, c |-> [c1 EXCEPT !.pc = "response_time"]]
        ELSE [m |-> m1, c |-> [c1 EXCEPT !.pc = "print"]]

\* RequestReturns with the failure of an uncaught exception counted before
\* the exception leaves the call
RequestReturnsCountingOther(m, c, o, clock) ==
    LET m1 == [m EXCEPT !.now = clock]
        c1 == [c EXCEPT !.script = Append(@, o)]
    IN  IF o.kind = "ok" THEN [m |-> m1, c |-> [c1 EXCEPT !.pc = "response_time"]]
        ELSE IF o.kind = "fail" THEN [m |-> m1, c |-> [c1 EXCEPT !.pc = "print"]]
        ELSE [m |-> [m1 EXCEPT
                       !.proxy_stats =
                          SetItem(@, update_proxy_stats_count(Lookup(@, Chosen(m)),
                                                              FALSE, None)),
                       !.upd = Append(@, <<Chosen(m), FALSE, None>>)],
              c |-> Ended(c1, Some("other"), None)]

\* requests.get of line 194 comes back at the time `clock`, doing o: with a
\* response (o.kind = "ok": the thread goes on to line 200), with one of the
\* exceptions line 207 catches ("fail": it goes on to the print of line 208)
\* or with another exception ("other": it leaves the call)
RequestReturns(m, c, o, clock) ==
    LET m1 == [m EXCEPT !.now = clock]
        c1 == [c EXCEPT !.script = Append(@, o)]
    IN  IF o.kind = "ok" THEN [m |-> m1, c |-> [c1 EXCEPT !.pc = "response_time"]]
        ELSE IF o.kind = "fail" THEN [m |-> m1, c |-> [c1 EXCEPT !.pc = "print"]]
        ELSE [m |-> m1, c |-> Ended(c1, Some("other"), None)]

\* line 200: response_time = time.time() - start_time
MeasureResponse(m, c) ==
    [m |-> m, c |-> [c EXCEPT !.response_time = Some(m.now - c.start_time),
                              !.start_time = 0, !.pc = "update"]]

\* RecordSuccess without line 203: a response is returned and not recorded
RecordSuccessUnrecorded(m, c) ==
    [m |-> m,
     c |-> Ended([c EXCEPT !.response_time = None], None,
                 <<Some("response"), Some(Chosen(m))>>)]

\* line 203, the call of update_proxy_stats for the response, and line 205
\* when that call has returned
RecordSuccess(m, c) ==
    update_proxy_stats(m, c, Chosen(m), TRUE, c.response_time)

\* lines 208-209, after a caught exception: the print and the call of
\* update_proxy_stats for the failure; lines 210 and 183 when that call has
\* returned
RecordFailure(m, c) ==
    update_proxy_stats(Emit(m, "Proxy error"), [c EXCEPT !.start_time = 0],
                       Chosen(m), FALSE, None)

-----------------------------------------------------------------------------
(* What the callers and the environment supply *)

ProxyA == <<"A">>
ProxyB == <<"B">>
\* a proxy that no file lists
ProxyX == <<"X">>

\* contents the proxy file is given: two proxies; one proxy; a padded line, an empty line and a line with a second
\* field; a line of one space; no line at all
SourceFiles ==
    { <<ProxyA, ProxyB>>,
      <<ProxyB>>,
      << <<" ", "A", " ">>, <<>>, <<"A", ",", "B">> >>,
      << ProxyA, <<" ">> >>,
      <<>> }

\* contents the file is given after the object was constructed
LaterFiles == { <<ProxyB>>, << ProxyA, <<" ">> >>, <<>> }

Strategies == {"sequential", "random", "performance"}

\* seconds a request that gets a response can take
Latencies == {1, 2}

FailOutcome == [kind |-> "fail", elapsed |-> 1]

Outcomes ==
    {[kind |-> "ok", elapsed |-> l] : l \in Latencies}
      \cup {FailOutcome, [kind |-> "other", elapsed |-> 1]}

-----------------------------------------------------------------------------
(* The state machine.  Calls are made on one object by up to two threads;  *)
(* the code takes no lock.  A step of a thread is one of the pieces above: *)
(* the thread runs from one place where the interpreter can switch to the  *)
(* next, and there the other thread can run.  A call during which no other *)
(* call was in progress is a call made in turn.                            *)

Threads == {1, 2}

\* the object as a call finds it
Self ==
    [proxies |-> proxies, current_index |-> current_index,
     proxy_stats |-> proxy_stats, now |-> now,
     sel |-> <<>>, net |-> <<>>, upd |-> <<>>, out |-> <<>>]

\* lines 34-38: the object before the constructor's load_proxies
NewObject ==
    [proxies |-> <<>>, current_index |-> 0, proxy_stats |-> <<>>, now |-> 0,
     sel |-> <<>>, net |-> <<>>, upd |-> <<>>, out |-> <<>>]

\* the record of a call, before its fields are filled in: the arguments, the
\* object as the call found it (before) and as its last attempt found it
\* (at_attempt), what it raised or returned, what it has done (sel, net, upd,
\* out), where it is (pc), its local variables (retries, start_time, rows,
\* offset, chosen, index, clock, best, pos, size), whether it is a call in turn (no
\* other call was in progress while it ran and no call has begun since it
\* ended), and whether every call that has ended so far was one (serial)
NoCall ==
    [op |-> "", rotation_strategy |-> "", max_retries |-> 0, script |-> <<>>,
     picks |-> <<>>, proxy |-> None, success |-> FALSE, response_time |-> None,
     found |-> None, before |-> Fields(NewObject), raised |-> None, ret |-> None,
     sel |-> <<>>, net |-> <<>>, upd |-> <<>>, out |-> <<>>,
     pc |-> "done", retries |-> 0, start_time |-> 0, in_turn |-> TRUE,
     at_attempt |-> Fields(NewObject), rows |-> <<>>, chosen |-> None,
     index |-> 0, clock |-> 0, best |-> NoBest, pos |-> 0, size |-> 0,
     offset |-> 0, serial |-> TRUE]

\* a thread that is not inside a call
Idle == [NoCall EXCEPT !.pc = "idle"]

\* the record of a call that found the object as `before`, left it as m and
\* raised or returned as given
Done(call, before, m, raised, ret) ==
    [call EXCEPT !.before = Fields(before), !.raised = raised, !.ret = ret,
                 !.sel = m.sel, !.net = m.net, !.upd = m.upd, !.out = m.out]

\* the update_proxy_stats calls counted in rec for proxy p: t with
\* success = True, f with success = False
Recorded(rec, p) == IF p \in DOMAIN rec THEN rec[p] ELSE [t |-> 0, f |-> 0]

\* rec with the update_proxy_stats calls of one more call counted
RECURSIVE Tally(_, _)
Tally(rec, upd) ==
    IF upd = <<>> THEN rec
    ELSE LET u == Head(upd)
             old == Recorded(rec, u[1])
             new == IF u[2] THEN [old EXCEPT !.t = @ + 1]
                    ELSE [old EXCEPT !.f = @ + 1]
         IN  Tally([p \in DOMAIN rec \cup {u[1]} |->
                       IF p = u[1] THEN new ELSE rec[p]],
                   Tail(upd))

\* the thread a new call runs in: the first that is not inside a call
Free == IF frames[1].pc = "idle" THEN 1 ELSE 2

\* a call of the given weight can begin, and is charged
Charge(weight) ==
    /\ frames[Free].pc = "idle"
    /\ work + weight <= MaxWork
    /\ work' = work + weight

\* the record of a call that begins now
Begin(call) ==
    [call EXCEPT !.before = Fields(Self), !.pc = "begin",
                 !.in_turn = \A u \in Threads : frames[u].pc = "idle"]

\* the object as the call recorded in c finds it when it goes on
Obj(c) ==
    [proxies |-> proxies, current_index |-> current_index,
     proxy_stats |-> proxy_stats, now |-> now,
     sel |-> c.sel, net |-> c.net, upd |-> c.upd, out |-> c.out]

\* s filled up to length n with v
Pad(s, n, v) == s \o [i \in 1..(n - Len(s)) |-> v]

\* the record of a call that has ended, without its local variables; of a
\* request, the outcomes and the draws that were never asked for are written
\* as FailOutcome and 1
Finished(c) ==
    LET c1 == [Returned(c) EXCEPT !.rows = <<>>, !.offset = 0, !.start_time = 0]
    IN  IF c.op = "request_with_proxy_rotation"
        THEN [c1 EXCEPT !.script = IF c.in_turn THEN Pad(@, c.max_retries, FailOutcome)
                                   ELSE @,
                        !.picks = IF c.in_turn THEN Pad(@, c.max_retries, 1) ELSE @,
                        !.proxy = None, !.success = FALSE,
                        !.response_time = None]
        ELSE c1

\* the record of a call that is not a call in turn: what the call found and
\* what it drew and was answered is kept for calls in turn only
Overlapped(c) ==
    [c EXCEPT !.in_turn = FALSE, !.before = Fields(NewObject),
              !.at_attempt = Fields(NewObject), !.script = <<>>, !.picks = <<>>]

\* thread t takes a step of the call recorded in c, which leaves the object
\* as r.m and the record as r.c.  A call that has ended becomes `last`; the
\* calls in progress in other threads, and the last call when this one goes
\* on, are no longer in turn.
Step(t, c, r) ==
    /\ proxies' = r.m.proxies
    /\ current_index' = r.m.current_index
    /\ proxy_stats' = r.m.proxy_stats
    /\ now' = r.m.now
    /\ recorded' = Tally(recorded, SubSeq(r.m.upd, Len(c.upd) + 1, Len(r.m.upd)))
    /\ rotation' = IF c.rotation_strategy \in {"", "random", "performance"}
                   THEN rotation
                   ELSE rotation + Len(r.m.sel) - Len(c.sel)
    /\ LET c0 == [r.c EXCEPT !.sel = r.m.sel, !.net = r.m.net,
                             !.upd = r.m.upd, !.out = r.m.out]
           c1 == IF c0.in_turn THEN c0 ELSE Overlapped(c0)
           others == [u \in Threads |->
                        IF u = t \/ frames[u].pc = "idle" THEN Idle
                        ELSE Overlapped(frames[u])]
       IN  IF c1.pc = "done"
           THEN /\ last' = [Finished(c1) EXCEPT
                               !.serial = last.serial /\ c1.in_turn]
                /\ frames' = others
           ELSE /\ last' = Overlapped(last)
                /\ frames' = [others EXCEPT ![t] = c1]
    /\ UNCHANGED callers

\* thread t is inside a call that goes on at one of the places pcs
Inside(t, pcs) == frames[t].pc \in pcs

\* the file as a load can find it: as the object and the loads before left
\* it, rewritten from outside, or removed.  It is not removed while a call
\* has it open for reading, and not touched from outside while a call is
\* writing it.
FoundFiles ==
    IF \E t \in Threads : Inside(t, {"write"}) THEN {file}
    ELSE IF \E t \in Threads : Inside(t, {"read"})
    THEN {file} \cup {Some(f) : f \in LaterFiles}
    ELSE {file} \cup {Some(f) : f \in LaterFiles} \cup {None}

\* the draws random.choice can make for a call with the given strategy
Draws(rotation_strategy) ==
    IF rotation_strategy = "random" /\ proxies # <<>> THEN 1..Len(proxies)
    ELSE {1}

\* the clock when a request issued at start_time that takes `elapsed` comes
\* back: not before start_time + elapsed, and no more than `elapsed` after
\* the latest time read so far (while one thread waits, the requests of the
\* other may have moved the clock on)
ReturnTimes(start_time, elapsed) ==
    {clock \in now..(now + elapsed) : clock >= start_time + elapsed}

\* ProxyManager(proxy_file_path): lines 34-41
Init ==
    \E found \in {Some(f) : f \in SourceFiles} \cup {None} :
        LET r == load_proxies(NewObject, found)
        IN  /\ file = r.file
            /\ proxies = r.m.proxies
            /\ current_index = r.m.current_index
            /\ proxy_stats = r.m.proxy_stats
            /\ now = r.m.now
            /\ work = 0
            /\ rotation = 0
            /\ loads = 1
            /\ recorded = [p \in {} |-> [t |-> 0, f |-> 0]]
            /\ callers = <<>>
            /\ frames = [t \in Threads |-> Idle]
            /\ last = Done([NoCall EXCEPT !.op = "__init__", !.found = found],
                           NewObject, r.m, None, None)

\* a later call of load_proxies begins: the file is opened (line 46), or is
\* not there (lines 64-65)
LoadProxies ==
    /\ Charge(2)
    /\ \E found \in FoundFiles :
        LET c == Begin([NoCall EXCEPT !.op = "load_proxies", !.found = found])
            r == load_proxies_open(Self, found)
        IN  /\ Step(Free, c, [m |-> r.m, c |-> [c EXCEPT !.pc = r.pc]])
            /\ file' = r.file
    /\ loads' = loads + 1

\* load_proxies with the file open: one read of the file, with the rows the
\* list comprehension of line 48 takes of it
LoadRead(t) ==
    /\ Inside(t, {"read"})
    /\ Step(t, frames[t], [m |-> Obj(frames[t]),
                           c |-> load_proxies_read(frames[t], file[1])])
    /\ UNCHANGED <<file, loads, work>>

\* load_proxies once the file is read: the store of line 48, up to the
\* close of the file
LoadStore(t) ==
    /\ Inside(t, {"store"})
    /\ Step(t, frames[t],
            [m |-> load_proxies_assign(Obj(frames[t]), frames[t].rows),
             c |-> [frames[t] EXCEPT !.rows = <<>>, !.pc = "close"]])
    /\ UNCHANGED <<file, loads, work>>

\* load_proxies once the file is closed: lines 50-53
LoadTest(t) ==
    /\ Inside(t, {"close"})
    /\ Step(t, frames[t], [m |-> load_proxies_print(Obj(frames[t])),
                           c |-> [frames[t] EXCEPT !.pc = "loop"]])
    /\ UNCHANGED <<file, loads, work>>

\* load_proxies after the print of line 51 or 53, and after each jump back
\* of the loop: one turn of lines 56-62
LoadRecord(t) ==
    /\ Inside(t, {"loop", "record"})
    /\ Step(t, frames[t], load_proxies_loop(Obj(frames[t]), frames[t]))
    /\ UNCHANGED <<file, loads, work>>

\* load_proxies after the print of line 65: the open of line 67
LoadTemplate(t) ==
    /\ Inside(t, {"print not found"})
    /\ Step(t, frames[t], [m |-> Obj(frames[t]),
                           c |-> [frames[t] EXCEPT !.pc = "write"]])
    /\ file' = load_proxies_create
    /\ UNCHANGED <<loads, work>>

\* load_proxies with the file open for writing: lines 68-70 and the close
LoadWrite(t) ==
    /\ Inside(t, {"write"})
    /\ Step(t, frames[t], [m |-> Obj(frames[t]),
                           c |-> Ended(frames[t], None, None)])
    /\ file' = load_proxies_template
    /\ UNCHANGED <<loads, work>>

\* get_proxy(rotation_strategy) begins
GetProxy ==
    /\ Charge(2)
    /\ \E rotation_strategy \in Strategies :
        \E pick \in Draws(rotation_strategy) :
          LET c == Begin([NoCall EXCEPT !.op = "get_proxy",
                                        !.rotation_strategy = rotation_strategy])
          IN  Step(Free, c, get_proxy_select(Self, c, pick))
    /\ UNCHANGED <<file, loads>>

\* update_proxy_stats(proxy, success, response_time) begins
UpdateProxyStats ==
    /\ Charge(2)
    /\ \E proxy \in {proxies[i] : i \in 1..Len(proxies)} \cup {ProxyX},
          success \in BOOLEAN,
          response_time \in {None} \cup {Some(l) : l \in Latencies} :
        LET c == Begin([NoCall EXCEPT !.op = "update_proxy_stats"])
        IN  Step(Free, c, update_proxy_stats(Self, c, proxy, success,
                                             response_time))
    /\ UNCHANGED <<file, loads>>

\* request_with_proxy_rotation(url, rotation_strategy, max_retries) begins
Request ==
    /\ Charge(4)
    /\ \E rotation_strategy \in Strategies, max_retries \in -1..MaxRetries :
        \E pick \in Draws(rotation_strategy) :
          LET c == Begin([NoCall EXCEPT !.op = "request_with_proxy_rotation",
                                        !.rotation_strategy = rotation_strategy,
                                        !.max_retries = max_retries])
          IN  Step(Free, c, IssueRequest(Self, c, pick))
    /\ UNCHANGED <<file, loads>>

\* get_proxy is entered by a later turn of the loop of the request (line 184)
Select(t) ==
    /\ Inside(t, {"get_proxy"})
    /\ \E pick \in Draws(frames[t].rotation_strategy) :
        Step(t, frames[t], get_proxy_select(Obj(frames[t]), frames[t], pick))
    /\ UNCHANGED <<file, loads, work>>

\* len has returned in line 92
Advance(t) ==
    /\ Inside(t, {"store index"})
    /\ Step(t, frames[t], get_proxy_advance(Obj(frames[t]), frames[t]))
    /\ UNCHANGED <<file, loads, work>>

\* random.choice has returned in line 86
Time(t) ==
    /\ Inside(t, {"time"})
    /\ Step(t, frames[t], get_proxy_time(Obj(frames[t]), frames[t]))
    /\ UNCHANGED <<file, loads, work>>

\* _get_best_performing_proxy is entered (line 88)
BestStart(t) ==
    /\ Inside(t, {"best"})
    /\ Step(t, frames[t], get_best_performing_proxy_start(Obj(frames[t]), frames[t]))
    /\ UNCHANGED <<file, loads, work>>

\* items() has returned in line 103, or the loop has jumped back
BestNext(t) ==
    /\ Inside(t, {"items", "for"})
    /\ Step(t, frames[t], get_best_performing_proxy_next(Obj(frames[t]), frames[t]))
    /\ UNCHANGED <<file, loads, work>>

\* time.time() has returned in line 95
LastUsed(t) ==
    /\ Inside(t, {"stamp"})
    /\ Step(t, frames[t], get_proxy_stamp(Obj(frames[t]), frames[t]))
    /\ UNCHANGED <<file, loads, work>>

\* get_proxy has returned a proxy to the request: lines 190-194
Send(t) ==
    /\ Inside(t, {"start_time"})
    /\ Step(t, frames[t], StartRequest(Obj(frames[t]), frames[t]))
    /\ UNCHANGED <<file, loads, work>>

\* the requests.get a thread waits in comes back
Returns(t) ==
    /\ Inside(t, {"requests.get"})
    /\ \E o \in Outcomes :
        \E clock \in ReturnTimes(frames[t].start_time, o.elapsed) :
          Step(t, frames[t], RequestReturns(Obj(frames[t]), frames[t], o, clock))
    /\ UNCHANGED <<file, loads, work>>

\* requests.get has returned a response: line 200
Measure(t) ==
    /\ Inside(t, {"response_time"})
    /\ Step(t, frames[t], MeasureResponse(Obj(frames[t]), frames[t]))
    /\ UNCHANGED <<file, loads, work>>

\* time.time() has returned in line 200: lines 203-205
Succeed(t) ==
    /\ Inside(t, {"update"})
    /\ Step(t, frames[t], RecordSuccess(Obj(frames[t]), frames[t]))
    /\ UNCHANGED <<file, loads, work>>

\* requests.get has raised a caught exception: lines 208-210 and 183
Retry(t) ==
    /\ Inside(t, {"print"})
    /\ Step(t, frames[t], RecordFailure(Obj(frames[t]), frames[t]))
    /\ UNCHANGED <<file, loads, work>>

\* time.time() has returned in line 130: the new record is stored, and
\* lines 134-145
StoreRecord(t) ==
    /\ Inside(t, {"new record"})
    /\ Step(t, frames[t], update_proxy_stats_store(Obj(frames[t]), frames[t]))
    /\ UNCHANGED <<file, loads, work>>

Next ==
    \/ LoadProxies \/ GetProxy \/ UpdateProxyStats \/ Request
    \/ \E t \in Threads :
          \/ LoadRead(t) \/ LoadStore(t) \/ LoadTest(t) \/ LoadRecord(t)
          \/ LoadTemplate(t) \/ LoadWrite(t)
          \/ Select(t) \/ Advance(t) \/ Time(t) \/ BestStart(t) \/ BestNext(t)
          \/ LastUsed(t)
          \/ Send(t) \/ Returns(t) \/ Measure(t) \/ Succeed(t) \/ Retry(t)
          \/ StoreRecord(t)

Spec == Init /\ [][Next]_vars

-----------------------------------------------------------------------------
(* Reading the record of a call *)

\* the last call that ended was a call of op made in turn, and the object is
\* as that call left it
Called(op) == last.op = op /\ last.in_turn

IsRequest == Called("request_with_proxy_rotation")

\* no call is in progress
Quiet == \A t \in Threads : frames[t].pc = "idle"

\* every call made so far was a call in turn, the call in progress included
Serial == last.serial /\ \A t \in Threads : frames[t].in_turn

\* the object is as the call found it
ObjectUntouched ==
    /\ proxies = last.before.proxies
    /\ current_index = last.before.current_index
    /\ proxy_stats = last.before.proxy_stats
    /\ now = last.before.now

RECURSIVE SumSuccess(_)
SumSuccess(d) == IF d = <<>> THEN 0 ELSE Head(d).success + SumSuccess(Tail(d))

RECURSIVE SumFailure(_)
SumFailure(d) == IF d = <<>> THEN 0 ELSE Head(d).failure + SumFailure(Tail(d))

\* requests.get raised a caught exception on each of the first n attempts
FailsFirst(n) == \A i \in 1..n : last.script[i].kind = "fail"

\* the call issued at least k requests, the k-th was answered as `kind` and
\* every one before it raised a caught exception
FirstEnded(k, kind) ==
    /\ k \in 1..Len(last.net)
    /\ last.script[k].kind = kind
    /\ FailsFirst(k - 1)

-----------------------------------------------------------------------------
(* C1 *)

\* C1: request_with_proxy_rotation on an empty list of proxies ends at once
\* at the "No proxies available." return of lines 186-188, with no request
\* issued and the object untouched, whatever max_retries is.
C1_EmptyPoolFailsAtOnce ==
    (IsRequest /\ last.before.proxies = <<>>) =>
        /\ last.raised = None
        /\ last.ret = <<None, None>>
        /\ last.out = <<"No proxies available.">>
        /\ last.sel = <<>> /\ last.net = <<>> /\ last.upd = <<>>
        /\ ObjectUntouched

-----------------------------------------------------------------------------
(* C2 *)

\* C2: a request that allows max_retries >= 1 attempts on a non-empty list,
\* with requests.get raising a caught exception every time, issues exactly
\* max_retries requests, records exactly max_retries failures and no success,
\* and returns (None, None) from the "Failed after ... retries." exit.
C2_AllFailExhausts ==
    (IsRequest /\ last.max_retries >= 1 /\ last.before.proxies # <<>>
       /\ FailsFirst(last.max_retries)) =>
        /\ Len(last.net) = last.max_retries
        /\ Len(last.upd) = last.max_retries
        /\ \A i \in 1..Len(last.upd) : ~last.upd[i][2]
        /\ SumFailure(proxy_stats)
             = SumFailure(last.before.proxy_stats) + last.max_retries
        /\ SumSuccess(proxy_stats) = SumSuccess(last.before.proxy_stats)
        /\ last.raised = None
        /\ last.ret = <<None, None>>
        /\ last.out[Len(last.out)] = "Failed after retries."

-----------------------------------------------------------------------------
(* C3 *)

\* C3: when the k-th request of a call is the first to get a response, the
\* call returns that response with the proxy of the k-th request, it has made
\* exactly k update_proxy_stats calls (k-1 failures for the proxies of the
\* first k-1 requests, then one success for the k-th with the elapsed time),
\* and it has issued no further request.
C3_FirstSuccessReturns ==
    \A k \in 1..MaxRetries + 1 :
        (IsRequest /\ FirstEnded(k, "ok")) =>
            /\ last.raised = None
            /\ last.ret = <<Some("response"), Some(last.net[k][2])>>
            /\ Len(last.net) = k
            /\ Len(last.sel) = k
            /\ Len(last.upd) = k
            /\ \A i \in 1..(k - 1) : last.upd[i] = <<last.net[i][2], FALSE, None>>
            /\ last.upd[k] = <<last.net[k][2], TRUE, Some(last.script[k].elapsed)>>
            /\ SumSuccess(proxy_stats) = SumSuccess(last.before.proxy_stats) + 1
            /\ SumFailure(proxy_stats) = SumFailure(last.before.proxy_stats) + k - 1

\* a call that allowed more attempts returned on its second request, after
\* one failure
C3_Witness ==
    /\ IsRequest /\ FirstEnded(2, "ok")
    /\ last.ret[1] = Some("response")
    /\ Len(last.upd) = 2

-----------------------------------------------------------------------------
(* C4 *)

\* C4: when requests.get raises an exception that line 207 does not catch on
\* the k-th request of a call, the exception leaves the call: nothing is
\* returned, no further proxy is chosen and no further request issued, and
\* update_proxy_stats has run only for the k-1 failures before it, so the
\* counts of the object have grown by those k-1 failures and nothing else.
C4_UncaughtPropagates ==
    \A k \in 1..MaxRetries + 1 :
        (IsRequest /\ FirstEnded(k, "other")) =>
            /\ last.raised = Some("other")
            /\ last.ret = None
            /\ Len(last.net) = k
            /\ Len(last.sel) = k
            /\ Len(last.upd) = k - 1
            /\ \A i \in 1..(k - 1) : last.upd[i] = <<last.net[i][2], FALSE, None>>
            /\ SumSuccess(proxy_stats) = SumSuccess(last.before.proxy_stats)
            /\ SumFailure(proxy_stats) = SumFailure(last.before.proxy_stats) + k - 1

\* an uncaught exception on the first request of a call that allowed more
\* attempts, on an object that holds statistics
C4_Witness ==
    /\ IsRequest /\ FirstEnded(1, "other")
    /\ last.max_retries >= 2
    /\ last.raised = Some("other")
    /\ proxy_stats # <<>>

-----------------------------------------------------------------------------
(* C5 *)

\* what a call returns when every allowed attempt has failed: one proxy, one
\* attempt allowed and made, the test of line 183 after it
ExhaustedResult ==
    LET obj == load_proxies(NewObject, Some(<<ProxyA>>)).m
        call == [NoCall EXCEPT !.op = "request_with_proxy_rotation",
                               !.rotation_strategy = "sequential",
                               !.max_retries = 1, !.retries = 1]
        r == LoopTest(obj, call)
    IN  <<r.c.raised, r.c.ret>>

\* C5: the value a call returns (or the exception it raises) tells the empty
\* list apart from exhausted retries: a call that allows an attempt on an
\* empty list does not end with what a call ends with after its attempts have
\* all failed.
C5_EmptyPoolDistinguishable ==
    (IsRequest /\ last.before.proxies = <<>> /\ last.max_retries >= 1) =>
        <<last.raised, last.ret>> # ExhaustedResult

-----------------------------------------------------------------------------
(* C6 *)

\* the call chose its proxies by the sequential strategy
IsSequential ==
    /\ (Called("get_proxy") \/ Called("request_with_proxy_rotation"))
    /\ last.rotation_strategy = "sequential"

\* C6: on a non-empty list of N proxies loaded by the constructor, with the
\* index starting at 0 and every call made in turn, the i-th proxy the
\* sequential strategy hands out (i = 0, 1, 2, ..., counted over get_proxy
\* calls and over the attempts of requests alike) is proxies[i mod N], and
\* between the calls the index stands at the number handed out so far mod N.
C6_SequentialCycle ==
    (loads = 1 /\ proxies # <<>> /\ Serial) =>
        LET N == Len(proxies)
            first == rotation - Len(last.sel)
        IN  /\ Quiet => current_index = rotation % N
            /\ IsSequential =>
                 \A j \in 1..Len(last.sel) :
                     last.sel[j] = proxies[((first + j - 1) % N) + 1]

\* a get_proxy call that follows a request handed out the third proxy of
\* the rotation over two different proxies: the first slot again
C6_Witness ==
    /\ loads = 1 /\ Len(proxies) = 2 /\ proxies[1] # proxies[2]
    /\ rotation = 3
    /\ Called("get_proxy") /\ IsSequential
    /\ last.sel = <<proxies[1]>>
    /\ current_index = 1

-----------------------------------------------------------------------------
(* C7 and C8 *)

IsPerformance ==
    /\ (Called("get_proxy") \/ Called("request_with_proxy_rotation"))
    /\ last.rotation_strategy = "performance"
    /\ last.sel # <<>>

\* success + failure, or 1 where that is 0 (the score is then 0 / 1)
Attempts(stats) ==
    IF stats.success + stats.failure = 0 THEN 1
    ELSE stats.success + stats.failure

\* score(a) >= score(b), on the counts
ScoreAtLeast(a, b) == a.success * Attempts(b) >= b.success * Attempts(a)

\* the record of a proxy in the dict the call found
StatsBefore(proxy) == Lookup(last.before.proxy_stats, proxy)

\* slot i holds a proxy whose score no slot of the list beats
TopSlot(i) ==
    \A j \in 1..Len(last.before.proxies) :
        ScoreAtLeast(StatsBefore(last.before.proxies[i]),
                     StatsBefore(last.before.proxies[j]))

\* the example of the specification: A with 3 successes and 1 failure, B with
\* 1 success and no failure
ExampleObject ==
    [proxies |-> <<ProxyA, ProxyB>>,
     proxy_stats |-> <<StatsEntry(ProxyA, 3, 1, Some(0), [num |-> 1, den |-> 1]),
                       StatsEntry(ProxyB, 1, 0, Some(0), [num |-> 1, den |-> 1])>>]

\* C7: the proxy the performance strategy returns (the first choice of a
\* call, made on the statistics the call found) has a score that is at least
\* the score of every proxy of the list; on the example it returns B.
C7_PerformanceBest ==
    /\ IsPerformance =>
         \A i \in 1..Len(last.before.proxies) :
             ScoreAtLeast(StatsBefore(last.sel[1]),
                          StatsBefore(last.before.proxies[i]))
    /\ get_best_performing_proxy(ExampleObject) = ProxyB

\* the performance strategy returned the second slot, whose proxy had a
\* higher score than the proxy of the first
C7_Witness ==
    /\ IsPerformance /\ Called("get_proxy")
    /\ Len(last.before.proxies) = 2
    /\ last.sel[1] = last.before.proxies[2]
    /\ ~ScoreAtLeast(StatsBefore(last.before.proxies[1]),
                     StatsBefore(last.before.proxies[2]))

\* every record of the dict the call found has no success and no failure
AllZeroBefore ==
    \A i \in 1..Len(last.before.proxy_stats) :
        /\ last.before.proxy_stats[i].success = 0
        /\ last.before.proxy_stats[i].failure = 0

\* C8: when several slots of the list share the highest score, the
\* performance strategy returns the proxy of the first of them; with all-zero
\* statistics it returns proxies[0].
C8_TieKeepsEarliestSlot ==
    IsPerformance =>
        LET ps == last.before.proxies
            tops == {i \in 1..Len(ps) : TopSlot(i)}
            first == CHOOSE i \in tops : \A j \in tops : i <= j
        IN  /\ Cardinality(tops) >= 2 => last.sel[1] = ps[first]
            /\ AllZeroBefore => last.sel[1] = ps[1]

-----------------------------------------------------------------------------
(* C9 *)

\* C9: on an object whose list was loaded once and whose calls were all made
\* in turn, every record of the dict has
\* success equal to the number of update_proxy_stats calls made for its proxy
\* with success = True and success + failure equal to the number of all
\* update_proxy_stats calls made for it, and every proxy such a call was made
\* for has a record.
C9_CountsMatchCalls ==
    (loads = 1 /\ Serial) =>
        /\ \A i \in 1..Len(proxy_stats) :
             LET e == proxy_stats[i]
                 r == Recorded(recorded, e.key)
             IN  /\ e.success = r.t
                 /\ e.success + e.failure = r.t + r.f
        /\ \A p \in DOMAIN recorded : HasKey(proxy_stats, p)

\* a proxy with calls of both kinds made for it, two of them after one another
C9_Witness ==
    /\ loads = 1
    /\ \E i \in 1..Len(proxy_stats) :
         /\ proxy_stats[i].success >= 1
         /\ proxy_stats[i].failure >= 1
         /\ Recorded(recorded, proxy_stats[i].key).t >= 1
    /\ last.upd # <<>>

-----------------------------------------------------------------------------
(* C10 *)

\* the last update_proxy_stats call of a call made in turn was made with
\* success = True
EndedWithSuccess ==
    last.in_turn /\ last.upd # <<>> /\ last.upd[Len(last.upd)][2]

\* the record of the proxy of that call when the call began (all zero where
\* the dict had none)
OldRecord ==
    LET proxy == last.upd[Len(last.upd)][1]
    IN  IF HasKey(last.before.proxy_stats, proxy) THEN StatsBefore(proxy)
        ELSE StatsEntry(proxy, 0, 0, None, ZeroAvg)

NewRecord == Lookup(proxy_stats, last.upd[Len(last.upd)][1])

\* C10: update_proxy_stats(proxy, True, response_time) adds one to success and
\* sets avg_response_time to (avg * (total - 1) + response_time) / total, avg
\* being the average before and total the sum success + failure after the
\* increment (failures counted); with response_time None the average stays.
\* The fractions are compared by cross-multiplication.
C10_RunningAverage ==
    EndedWithSuccess =>
        LET rt == last.upd[Len(last.upd)][3]
            old == OldRecord.avg_response_time
            new == NewRecord.avg_response_time
            total == NewRecord.success + NewRecord.failure
        IN  /\ NewRecord.success = OldRecord.success + 1
            /\ IF rt # None
               THEN new.num * old.den * total
                      = new.den * (old.num * (total - 1) + rt[1] * old.den)
               ELSE new = old

\* a success with a response time recorded for a proxy that has a failure:
\* the new average is below the response time
C10_Witness ==
    /\ EndedWithSuccess
    /\ last.upd[Len(last.upd)][3] # None
    /\ NewRecord.failure >= 1
    /\ NewRecord.avg_response_time.num
         < last.upd[Len(last.upd)][3][1] * NewRecord.avg_response_time.den
    /\ NewRecord.avg_response_time.num > 0

-----------------------------------------------------------------------------
(* C11 *)

\* the call was update_proxy_stats(proxy, False, response_time)
IsFailureUpdate == Called("update_proxy_stats") /\ ~last.success

\* C11: update_proxy_stats(proxy, False, response_time) adds one to failure of
\* the record of proxy and changes nothing else: success and
\* avg_response_time of that record stay, with response_time given or None,
\* and so do every other record, the list and the index.
C11_FailureOnlyCounts ==
    IsFailureUpdate =>
        /\ NewRecord.failure = OldRecord.failure + 1
        /\ NewRecord.success = OldRecord.success
        /\ NewRecord.avg_response_time = OldRecord.avg_response_time
        /\ \A i \in 1..Len(last.before.proxy_stats) :
             last.before.proxy_stats[i].key # last.proxy[1]
                 => proxy_stats[i] = last.before.proxy_stats[i]
        /\ proxies = last.before.proxies
        /\ current_index = last.before.current_index

\* a failure recorded with a response time for a proxy that has a success
\* and a non-zero average
C11_Witness ==
    /\ IsFailureUpdate
    /\ last.response_time # None
    /\ OldRecord.success >= 1
    /\ OldRecord.avg_response_time.num > 0
    /\ NewRecord.failure = 1

-----------------------------------------------------------------------------
(* C12 *)

\* the time the first n requests of the call took
RECURSIVE Elapsed(_)
Elapsed(n) == IF n = 0 THEN 0 ELSE Elapsed(n - 1) + last.script[n].elapsed

\* the last attempt of the call that chose proxy
LastAttemptWith(proxy) ==
    CHOOSE j \in 1..Len(last.sel) :
        /\ last.sel[j] = proxy
        /\ \A k \in 1..Len(last.sel) : last.sel[k] = proxy => k <= j

\* C12: after request_with_proxy_rotation, every proxy an attempt of the call
\* chose has last_used equal to the clock at the moment its last attempt chose
\* it: the time the call began plus the time the requests of the earlier
\* attempts took, without the time of the attempt's own request, and whatever
\* that request and the later ones did.
C12_LastUsedStamped ==
    IsRequest =>
        \A j \in 1..Len(last.sel) :
            LET proxy == last.sel[j]
            IN  Lookup(proxy_stats, proxy).last_used
                  = Some(last.before.now + Elapsed(LastAttemptWith(proxy) - 1))

\* a call of two failed attempts on two different proxies: the first proxy
\* keeps the time the call began, the second the time its attempt began, and
\* the clock has moved on
C12_Witness ==
    /\ IsRequest
    /\ Len(last.net) = 2 /\ FailsFirst(2)
    /\ last.sel[1] # last.sel[2]
    /\ Lookup(proxy_stats, last.sel[1]).last_used = Some(last.before.now)
    /\ Lookup(proxy_stats, last.sel[2]).last_used = Some(last.before.now + 1)
    /\ now = last.before.now + 2

-----------------------------------------------------------------------------
(* C13 *)

\* the call was a load (the constructor's or a later one) that found no file
IsLoadWithoutFile ==
    (Called("__init__") \/ Called("load_proxies")) /\ last.found = None

\* C13: a load that finds no file raises nothing, writes the template file,
\* whose lines all begin with '#', and leaves the object with an empty list
\* and an empty statistics dict.
C13_AbsentSourceEmptyPool ==
    IsLoadWithoutFile =>
        /\ last.raised = None
        /\ file = Some(TemplateFile)
        /\ \A i \in 1..Len(file[1]) : Head(file[1][i]) = "#"
        /\ proxies = <<>>
        /\ proxy_stats = <<>>

-----------------------------------------------------------------------------
(* C14 *)

\* the call was a load (the constructor's or a later one) that found the file
IsLoadOfFile ==
    (Called("__init__") \/ Called("load_proxies")) /\ last.found # None

\* the non-empty lines in file order, each with the blanks at its ends removed
RECURSIVE StrippedLines(_)
StrippedLines(lines) ==
    IF lines = <<>> THEN <<>>
    ELSE (IF Head(lines) = <<>> THEN <<>> ELSE <<Strip(Head(lines))>>)
           \o StrippedLines(Tail(lines))

\* C14: after a load that found the file, the list holds one slot per
\* non-empty line of the file, in file order, each slot being its line with
\* leading and trailing whitespace removed; a line that occurs twice gives two
\* slots.
C14_LinePerSlot ==
    IsLoadOfFile => proxies = StrippedLines(last.found[1])

-----------------------------------------------------------------------------
(* C15 *)

\* the call chose its proxies by the random strategy on a non-empty list
IsRandom ==
    /\ (Called("get_proxy") \/ Called("request_with_proxy_rotation"))
    /\ last.rotation_strategy = "random"
    /\ last.before.proxies # <<>>

\* get_proxy('random') can now draw slot i of the list: the call begins with
\* that slot as its proxy and leaves the index
CanDraw(i) ==
    ENABLED (/\ GetProxy
             /\ frames'[Free].rotation_strategy = "random"
             /\ frames'[Free].picks = <<i>>
             /\ frames'[Free].chosen = Some(proxies[i])
             /\ current_index' = current_index)

\* C15: on a non-empty list the random strategy returns the slot of the list
\* that random.choice drew, get_proxy('random') raises nothing, and the call
\* leaves current_index as it was; and in every state with a non-empty list,
\* whatever was chosen before, each slot of the list (equal proxies counted
\* slot by slot) is a possible result of the next get_proxy('random').  (The
\* next call exists while the object has work left for one; it is a call in
\* turn when no call is in progress.)
C15_RandomChoice ==
    /\ IsRandom =>
         /\ \A j \in 1..Len(last.sel) :
                last.sel[j] = last.before.proxies[last.picks[j]]
         /\ Called("get_proxy") =>
                /\ last.raised = None
                /\ last.ret = Some(last.before.proxies[last.picks[1]])
         /\ current_index = last.before.current_index
    /\ (proxies # <<>> /\ work + 2 <= MaxWork /\ Quiet) =>
         \A i \in 1..Len(proxies) : CanDraw(i)

\* after the index had moved to 1, get_proxy('random') returned the second
\* slot of a list of two and left the index at 1
C15_Witness ==
    /\ IsRandom /\ Called("get_proxy")
    /\ Len(proxies) = 2
    /\ last.picks = <<2>>
    /\ last.ret = Some(proxies[2])
    /\ current_index = 1
    /\ rotation = 1

-----------------------------------------------------------------------------
(* C16 *)

\* the call ended by 'Failed after ... retries.' or by an exception
EndedExhaustedOrRaised ==
    /\ IsRequest
    /\ \/ last.raised # None
       \/ \E i \in 1..Len(last.out) : last.out[i] = "Failed after retries."

\* the requests of the call made through proxy that raised a caught exception
FailedAttemptsOn(proxy) ==
    Cardinality({j \in 1..Len(last.net) :
                    last.sel[j] = proxy /\ last.script[j].kind = "fail"})

\* C16: when request_with_proxy_rotation ends by exhausting its retries or by
\* an exception, every proxy the call made a request through has, after the
\* call, the failures it had before plus one for each of the call's requests
\* through it that failed, and the successes it had before.
C16_NoRollback ==
    EndedExhaustedOrRaised =>
        \A j \in 1..Len(last.net) :
            LET proxy == last.sel[j]
            IN  /\ Lookup(proxy_stats, proxy).failure
                     = StatsBefore(proxy).failure + FailedAttemptsOn(proxy)
                /\ Lookup(proxy_stats, proxy).success = StatsBefore(proxy).success

\* a call that exhausted two attempts on two different proxies, one of which
\* had a failure before: that one now has two, the other one
C16_Witness ==
    /\ EndedExhaustedOrRaised /\ last.raised = None
    /\ Len(last.net) = 2
    /\ last.sel[1] # last.sel[2]
    /\ StatsBefore(last.sel[1]).failure = 1
    /\ Lookup(proxy_stats, last.sel[1]).failure = 2
    /\ Lookup(proxy_stats, last.sel[2]).failure = 1

-----------------------------------------------------------------------------
(* C17 *)

\* C17: whatever the call (a load, get_proxy, update_proxy_stats or a
\* request, made in turn), every record the statistics dict had before the
\* call is still in it after the call, with a sum success + failure that is
\* not smaller and with neither count smaller.
C17_CountsNeverReset ==
  last.in_turn =>
    \A i \in 1..Len(last.before.proxy_stats) :
        LET old == last.before.proxy_stats[i]
        IN  /\ HasKey(proxy_stats, old.key)
            /\ Lookup(proxy_stats, old.key).success
                 + Lookup(proxy_stats, old.key).failure
                 >= old.success + old.failure
            /\ Lookup(proxy_stats, old.key).success >= old.success
            /\ Lookup(proxy_stats, old.key).failure >= old.failure

-----------------------------------------------------------------------------
(* C18 *)

\* the record of proxy when the call began, all zero where the dict had none
RecordBefore(proxy) ==
    IF HasKey(last.before.proxy_stats, proxy) THEN StatsBefore(proxy)
    ELSE StatsEntry(proxy, 0, 0, None, ZeroAvg)

\* the update_proxy_stats calls the call made for proxy
UpdatesFor(proxy) ==
    Cardinality({k \in 1..Len(last.upd) : last.upd[k][1] = proxy})

\* C18: after a load that found the file, every slot of the list has exactly
\* one record in the statistics dict, under the string the slot holds, and
\* that record has success 0, failure 0, last_used None and average 0; the
\* dict never has two records under one string, so that slots holding the
\* same string share a record: after any call made in turn, the record of a
\* proxy has gained one count for each update_proxy_stats call made for that
\* proxy, whichever slots the proxy was chosen from.
C18_LoadedRecords ==
    /\ IsLoadOfFile =>
         \A i \in 1..Len(proxies) :
             /\ Cardinality({k \in 1..Len(proxy_stats) :
                                proxy_stats[k].key = proxies[i]}) = 1
             /\ Lookup(proxy_stats, proxies[i])
                  = StatsEntry(proxies[i], 0, 0, None, ZeroAvg)
    /\ \A k1 \in 1..Len(proxy_stats) : \A k2 \in 1..Len(proxy_stats) :
         proxy_stats[k1].key = proxy_stats[k2].key => k1 = k2
    /\ last.in_turn =>
        \A j \in 1..Len(last.upd) :
         LET proxy == last.upd[j][1]
         IN  /\ HasKey(proxy_stats, proxy)
             /\ Lookup(proxy_stats, proxy).success + Lookup(proxy_stats, proxy).failure
                  = RecordBefore(proxy).success + RecordBefore(proxy).failure
                      + UpdatesFor(proxy)

\* a file whose lines give the same string twice was loaded into two slots
\* and one record, and a request that went through both slots in turn left
\* both its failures in that record
C18_Witness ==
    /\ Len(proxies) = 2 /\ proxies[1] = proxies[2]
    /\ Len(proxy_stats) = 1
    /\ IsRequest /\ IsSequential
    /\ last.before.current_index = 0 /\ Len(last.net) = 2
    /\ Lookup(proxy_stats, proxies[1]).failure = 2
    /\ current_index = 0

-----------------------------------------------------------------------------
(* C19 *)

\* the call was update_proxy_stats for a proxy the dict had no record of
IsFirstUpdate ==
    /\ Called("update_proxy_stats")
    /\ ~HasKey(last.before.proxy_stats, last.proxy[1])

\* C19: update_proxy_stats for a proxy that has no record adds a record for
\* it at the end of the dict and leaves the others as they were; the new
\* record has last_used equal to the clock at the call and is the all-zero
\* record with the outcome applied: success + failure = 1, the one count
\* being success or failure as the call says, and the average is the response
\* time of a success that gave one and 0 otherwise.
C19_LazyRecord ==
    IsFirstUpdate =>
        LET new == Lookup(proxy_stats, last.proxy[1])
        IN  /\ HasKey(proxy_stats, last.proxy[1])
            /\ Len(proxy_stats) = Len(last.before.proxy_stats) + 1
            /\ proxy_stats[Len(proxy_stats)].key = last.proxy[1]
            /\ SubSeq(proxy_stats, 1, Len(proxy_stats) - 1) = last.before.proxy_stats
            /\ new.last_used = Some(last.before.now)
            /\ new.success + new.failure = 1
            /\ new.success = (IF last.success THEN 1 ELSE 0)
            /\ new.avg_response_time
                 = (IF last.success /\ last.response_time # None
                    THEN [num |-> last.response_time[1], den |-> 1]
                    ELSE ZeroAvg)

\* after a request had moved the clock, a success with a response time was
\* recorded for a proxy without a record
C19_Witness ==
    /\ IsFirstUpdate
    /\ last.success /\ last.response_time = Some(2)
    /\ now >= 1
    /\ Lookup(proxy_stats, last.proxy[1]).last_used = Some(now)
    /\ Lookup(proxy_stats, last.proxy[1]).avg_response_time = [num |-> 2, den |-> 1]
    /\ Len(proxy_stats) >= 2

-----------------------------------------------------------------------------
(* Two callers on one object.  Each runs                                   *)
(* request_with_proxy_rotation(url, 'sequential', max_retries) in a thread *)
(* of its own; the code takes no lock.  A step is one statement of the     *)
(* code, except that a statement which reads a field of the object or the  *)
(* clock and then writes a field (line 92, line 95, and the += of lines    *)
(* 137 and 145) is two steps, its load and its store, between which the    *)
(* other caller can run; the assignment of the average (lines 141-143) is  *)
(* kept as one step.  A caller waits inside requests.get (line 194) while  *)
(* the other caller runs: the reading of start_time (line 193), the return *)
(* of requests.get and the reading of response_time (line 200) are three   *)
(* steps.  This is the grain of an interpreter that can switch threads     *)
(* between any two bytecodes; it includes every interleaving of the        *)
(* coarser grain above.                                                    *)

Callers == {1, 2}

\* the files the shared object is constructed from
SharedFiles == { <<ProxyA, ProxyB>>, <<ProxyB>> }

\* the attempts the second caller allows (never more than the first caller)
SecondRetries == {1, 2}

\* what requests.get does for the two callers: each request takes one second;
\* when its caller is run again varies (ReturnTimes)
SharedOutcomes == {o \in Outcomes : o.elapsed = 1}

\* a caller entering request_with_proxy_rotation: retries = 0 (line 181).
\* `loaded` and `clock` are the value a statement has read and not yet
\* stored (0 when there is none); the other fields are the locals of the call.
StartCaller(max_retries) ==
    [pc |-> "while", max_retries |-> max_retries, retries |-> 0,
     proxy |-> None, slot |-> 0, loaded |-> 0, clock |-> 0, start_time |-> 0,
     response_time |-> None, result |-> ""]

\* the value a store of `x += 1` writes, x having been loaded as `loaded` and
\* being `current` at the store, were it written by a single atomic step
IncrementedAtomic(current, loaded) == current + 1

\* the value the store of `x += 1` writes: one more than the value loaded
Incremented(current, loaded) == loaded + 1

At(c, pc) == callers[c].pc = pc

\* the record of the proxy caller c holds
RecordOf(c) == Lookup(proxy_stats, callers[c].proxy[1])

\* what no caller's step changes
Bystanders == UNCHANGED <<file, proxies, last, frames, work, rotation, loads>>

InitConcurrent ==
    \E f \in SharedFiles, max_retries \in 1..MaxRetries :
      \E second \in {n \in SecondRetries : n <= max_retries} :
        LET r == load_proxies(NewObject, Some(f))
        IN  /\ file = r.file
            /\ proxies = r.m.proxies
            /\ current_index = r.m.current_index
            /\ proxy_stats = r.m.proxy_stats
            /\ now = r.m.now
            /\ work = 0
            /\ rotation = 0
            /\ loads = 1
            /\ recorded = [p \in {} |-> [t |-> 0, f |-> 0]]
            /\ frames = [t \in Threads |-> Idle]
            /\ last = Done([NoCall EXCEPT !.op = "__init__", !.found = Some(f)],
                           NewObject, r.m, None, None)
            /\ callers = [c \in Callers |->
                             StartCaller(IF c = 1 THEN max_retries ELSE second)]

\* line 183 with `retries <= max_retries`: one attempt more is allowed
WhileInclusive(c) ==
    /\ At(c, "while")
    /\ callers' = [callers EXCEPT ![c] =
                     IF @.retries <= @.max_retries THEN [@ EXCEPT !.pc = "get_proxy"]
                     ELSE [@ EXCEPT !.pc = "done", !.result = "exhausted"]]
    /\ UNCHANGED <<current_index, proxy_stats, now, recorded>>
    /\ Bystanders

\* line 183, and lines 212-213 when the retries are used up
While(c) ==
    /\ At(c, "while")
    /\ callers' = [callers EXCEPT ![c] =
                     IF @.retries < @.max_retries THEN [@ EXCEPT !.pc = "get_proxy"]
                     ELSE [@ EXCEPT !.pc = "done", !.result = "exhausted"]]
    /\ UNCHANGED <<current_index, proxy_stats, now, recorded>>
    /\ Bystanders

\* get_proxy, lines 82-83 and 91: proxy = self.proxies[self.current_index]
ReadSlot(c) ==
    /\ At(c, "get_proxy")
    /\ callers' = [callers EXCEPT ![c] =
                     IF proxies = <<>>
                     THEN [@ EXCEPT !.pc = "done", !.result = "no proxies"]
                     ELSE [@ EXCEPT !.pc = "load_index", !.slot = current_index,
                                    !.proxy = Some(proxies[current_index + 1])]]
    /\ UNCHANGED <<current_index, proxy_stats, now, recorded>>
    /\ Bystanders

\* line 92, the load of self.current_index
LoadIndex(c) ==
    /\ At(c, "load_index")
    /\ callers' = [callers EXCEPT ![c] =
                     [@ EXCEPT !.pc = "store_index", !.loaded = current_index]]
    /\ UNCHANGED <<current_index, proxy_stats, now, recorded>>
    /\ Bystanders

\* line 92, the store of self.current_index
StoreIndex(c) ==
    /\ At(c, "store_index")
    /\ current_index' = (callers[c].loaded + 1) % Len(proxies)
    /\ callers' = [callers EXCEPT ![c] = [@ EXCEPT !.pc = "time", !.loaded = 0]]
    /\ UNCHANGED <<proxy_stats, now, recorded>>
    /\ Bystanders

\* line 95, the call of time.time()
ReadClock(c) ==
    /\ At(c, "time")
    /\ callers' = [callers EXCEPT ![c] = [@ EXCEPT !.pc = "stamp", !.clock = now]]
    /\ UNCHANGED <<current_index, proxy_stats, now, recorded>>
    /\ Bystanders

\* line 95, the store of last_used; the return of line 96 and the test of
\* line 186
Stamp(c) ==
    /\ At(c, "stamp")
    /\ proxy_stats' = [proxy_stats EXCEPT
                         ![KeyPos(proxy_stats, callers[c].proxy[1])].last_used
                            = Some(callers[c].clock)]
    /\ callers' = [callers EXCEPT ![c] =
                     IF Truthy(@.proxy) THEN [@ EXCEPT !.pc = "start_time", !.clock = 0]
                     ELSE [@ EXCEPT !.pc = "done", !.result = "no proxies", !.clock = 0]]
    /\ UNCHANGED <<current_index, now, recorded>>
    /\ Bystanders

\* line 193: start_time = time.time(), and the call of requests.get
StartTime(c) ==
    /\ At(c, "start_time")
    /\ callers' = [callers EXCEPT ![c] = [@ EXCEPT !.pc = "request", !.start_time = now]]
    /\ UNCHANGED <<current_index, proxy_stats, now, recorded>>
    /\ Bystanders

\* line 194: requests.get answers, raises a caught exception (line 207) or
\* raises another one, the time it took having passed since start_time
RequestsGet(c) ==
    /\ At(c, "request")
    /\ \E o \in SharedOutcomes :
        \E clock \in ReturnTimes(callers[c].start_time, o.elapsed) :
            /\ now' = clock
            /\ callers' = [callers EXCEPT ![c] =
                             IF o.kind = "ok"
                             THEN [@ EXCEPT !.pc = "response_time"]
                             ELSE IF o.kind = "fail"
                             THEN [@ EXCEPT !.pc = "load_failure"]
                             ELSE [@ EXCEPT !.pc = "done", !.result = "raised"]]
    /\ UNCHANGED <<current_index, proxy_stats, recorded>>
    /\ Bystanders

\* line 200: response_time = time.time() - start_time
ResponseTime(c) ==
    /\ At(c, "response_time")
    /\ callers' = [callers EXCEPT ![c] =
                     [@ EXCEPT !.pc = "load_success",
                               !.response_time = Some(now - callers[c].start_time)]]
    /\ UNCHANGED <<current_index, proxy_stats, now, recorded>>
    /\ Bystanders

\* the call of update_proxy_stats of line 209, and the load of
\* stats['failure'] of line 145
LoadFailure(c) ==
    /\ At(c, "load_failure")
    /\ callers' = [callers EXCEPT ![c] =
                     [@ EXCEPT !.pc = "store_failure", !.loaded = RecordOf(c).failure]]
    /\ recorded' = Tally(recorded, << <<callers[c].proxy[1], FALSE, None>> >>)
    /\ UNCHANGED <<current_index, proxy_stats, now>>
    /\ Bystanders

\* line 145, the store of stats['failure'], and line 210
StoreFailure(c) ==
    /\ At(c, "store_failure")
    /\ proxy_stats' = [proxy_stats EXCEPT
                         ![KeyPos(proxy_stats, callers[c].proxy[1])].failure
                            = Incremented(@, callers[c].loaded)]
    /\ callers' = [callers EXCEPT ![c] =
                     [@ EXCEPT !.pc = "while", !.retries = @ + 1, !.loaded = 0]]
    /\ UNCHANGED <<current_index, now, recorded>>
    /\ Bystanders

\* the call of update_proxy_stats of line 203, and the load of
\* stats['success'] of line 137
LoadSuccess(c) ==
    /\ At(c, "load_success")
    /\ callers' = [callers EXCEPT ![c] =
                     [@ EXCEPT !.pc = "store_success", !.loaded = RecordOf(c).success]]
    /\ recorded' = Tally(recorded,
                         << <<callers[c].proxy[1], TRUE, callers[c].response_time>> >>)
    /\ UNCHANGED <<current_index, proxy_stats, now>>
    /\ Bystanders

\* line 137, the store of stats['success']
StoreSuccess(c) ==
    /\ At(c, "store_success")
    /\ proxy_stats' = [proxy_stats EXCEPT
                         ![KeyPos(proxy_stats, callers[c].proxy[1])].success
                            = Incremented(@, callers[c].loaded)]
    /\ callers' = [callers EXCEPT ![c] = [@ EXCEPT !.pc = "average", !.loaded = 0]]
    /\ UNCHANGED <<current_index, now, recorded>>
    /\ Bystanders

\* lines 138-143 and the return of line 205
Average(c) ==
    /\ At(c, "average")
    /\ LET stats == RecordOf(c)
           total == stats.success + stats.failure
           avg == stats.avg_response_time
       IN  proxy_stats' = [proxy_stats EXCEPT
                             ![KeyPos(proxy_stats, callers[c].proxy[1])].avg_response_time
                                = Frac(avg.num * (total - 1)
                                         + callers[c].response_time[1] * avg.den,
                                       avg.den * total)]
    /\ callers' = [callers EXCEPT ![c] = [@ EXCEPT !.pc = "done", !.result = "response"]]
    /\ UNCHANGED <<current_index, now, recorded>>
    /\ Bystanders

NextConcurrent ==
    \E c \in Callers :
        \/ While(c) \/ ReadSlot(c) \/ LoadIndex(c) \/ StoreIndex(c)
        \/ ReadClock(c) \/ Stamp(c)
        \/ StartTime(c) \/ RequestsGet(c) \/ ResponseTime(c)
        \/ LoadFailure(c) \/ StoreFailure(c)
        \/ LoadSuccess(c) \/ StoreSuccess(c) \/ Average(c)

SpecConcurrent == InitConcurrent /\ [][NextConcurrent]_vars

-----------------------------------------------------------------------------
(* C20 *)

\* success + failure of the record of proxy in dict d
Counted(d, proxy) == Lookup(d, proxy).success + Lookup(d, proxy).failure

\* the outcomes update_proxy_stats was called with for proxy, as counted in rec
Outcomes_recorded(rec, proxy) == Recorded(rec, proxy).t + Recorded(rec, proxy).f

\* caller c stores a count that another caller has changed since c loaded it
StaleStore(c) ==
    \/ StoreFailure(c) /\ RecordOf(c).failure # callers[c].loaded
    \/ StoreSuccess(c) /\ RecordOf(c).success # callers[c].loaded

\* another caller has read the slot at current_index and not yet stored the
\* advanced index
SlotTaken(c) ==
    \E c2 \in Callers \ {c} :
        /\ callers[c2].pc \in {"load_index", "store_index"}
        /\ callers[c2].slot = current_index

\* C20: with two callers running request_with_proxy_rotation on one object
\* and no lock, (a) a caller whose store of a count comes after another
\* caller changed that count leaves the record with fewer outcomes counted
\* (success + failure) than update_proxy_stats was called with for that
\* proxy: an increment is lost; and (b) a caller that reads its slot while
\* the other caller has read the slot at current_index but not yet advanced
\* the index gets that same slot.  Both interleavings are reachable.
C20_Unserialized ==
    [][ \A c \in Callers :
          /\ StaleStore(c) =>
                Counted(proxy_stats', callers[c].proxy[1])
                  < Outcomes_recorded(recorded', callers[c].proxy[1])
          /\ (ReadSlot(c) /\ SlotTaken(c)) =>
                \E c2 \in Callers \ {c} :
                    /\ callers'[c].slot = callers[c2].slot
                    /\ callers'[c].proxy = callers[c2].proxy ]_vars

\* both callers made one attempt on a list of two different proxies and are
\* done: both were given slot 0, the index was advanced once, and the record
\* of that proxy counts one failure where two were recorded
C20_Witness ==
    /\ \A c \in Callers :
         /\ At(c, "done") /\ callers[c].result = "exhausted"
         /\ callers[c].max_retries = 1
         /\ callers[c].slot = 0
    /\ Len(proxies) = 2 /\ proxies[1] # proxies[2]
    /\ current_index = 1
    /\ Lookup(proxy_stats, proxies[1]).failure = 1
    /\ Recorded(recorded, proxies[1]).f = 2

-----------------------------------------------------------------------------
(* C21 *)

\* The callers of SpecConcurrent with the scheduling the claim supposes: a
\* caller that can take a step takes one in the end (its thread is run, and
\* every requests.get returns or raises, by the timeout of line 197).
CallerStep(c) ==
    \/ While(c) \/ ReadSlot(c) \/ LoadIndex(c) \/ StoreIndex(c)
    \/ ReadClock(c) \/ Stamp(c)
    \/ StartTime(c) \/ RequestsGet(c) \/ ResponseTime(c)
    \/ LoadFailure(c) \/ StoreFailure(c)
    \/ LoadSuccess(c) \/ StoreSuccess(c) \/ Average(c)

\* the shared object with a first caller that allows 0..MaxRetries attempts
\* and a second caller that allows one
InitLive ==
    \E f \in SharedFiles, max_retries \in 0..MaxRetries :
        LET r == load_proxies(NewObject, Some(f))
        IN  /\ file = r.file
            /\ proxies = r.m.proxies
            /\ current_index = r.m.current_index
            /\ proxy_stats = r.m.proxy_stats
            /\ now = r.m.now
            /\ work = 0
            /\ rotation = 0
            /\ loads = 1
            /\ recorded = [p \in {} |-> [t |-> 0, f |-> 0]]
            /\ frames = [t \in Threads |-> Idle]
            /\ last = Done([NoCall EXCEPT !.op = "__init__", !.found = Some(f)],
                           NewObject, r.m, None, None)
            /\ callers = [c \in Callers |->
                             StartCaller(IF c = 1 THEN max_retries ELSE 1)]

SpecLive ==
    /\ InitLive
    /\ [][NextConcurrent]_vars
    /\ \A c \in Callers : WF_vars(CallerStep(c))

\* the network requests caller c has issued: one per failure counted in
\* retries, and the one that is in flight, that was answered, that raised
\* another exception, or whose failure is not yet counted
Issued(c) ==
    callers[c].retries
      + (IF \/ callers[c].pc \in {"request", "response_time", "load_success",
                                  "store_success", "average",
                                  "load_failure", "store_failure"}
            \/ callers[c].result \in {"response", "raised"}
         THEN 1 ELSE 0)

AllDone == \A c \in Callers : At(c, "done")

\* C21: every call of request_with_proxy_rotation ends, having issued at most
\* max_retries network requests: retries never decreases, it grows by one
\* with every caught failure (line 210), and after a response no further
\* request is issued.
C21_Terminates ==
    /\ <>[]AllDone
    /\ [](\A c \in Callers : Issued(c) <= callers[c].max_retries)
    /\ [][\A c \in Callers :
            /\ callers'[c].retries >= callers[c].retries
            /\ StoreFailure(c) => callers'[c].retries = callers[c].retries + 1
            /\ callers[c].result = "response" => callers'[c] = callers[c]]_vars

\* both calls have ended: one used up its two retries on two failures, the
\* other got a response on its only attempt
C21_Witness ==
    /\ AllDone
    /\ \E c \in Callers :
         /\ callers[c].result = "exhausted"
         /\ callers[c].retries = 2 /\ callers[c].max_retries = 2
    /\ \E c \in Callers :
         /\ callers[c].result = "response"
         /\ callers[c].retries = 0 /\ callers[c].max_retries = 1

-----------------------------------------------------------------------------
(* C22 *)

\* C22: a load keeps the lines that begin with '#': after a load that found
\* the file, the list has one slot per non-empty line and the slot of a line
\* that begins with '#' is that line (with the whitespace at its ends
\* removed); so the load of the template that an earlier load wrote gives the
\* template's three lines as the list.
C22_CommentLinesLoaded ==
    IsLoadOfFile =>
        LET lines == StrippedLines(last.found[1])
        IN  /\ Len(proxies) = Len(lines)
            /\ \A k \in 1..Len(lines) :
                 (lines[k] # <<>> /\ Head(lines[k]) = "#") => proxies[k] = lines[k]
            /\ last.found = Some(TemplateFile) => proxies = TemplateFile

-----------------------------------------------------------------------------
(* C23 *)

\* C23: while the list is non-empty, 0 <= current_index < len(proxies), and
\* no call ends with the IndexError of an index outside the list, whatever
\* loads, selections and requests came before, a load of a shorter file
\* included.
C23_CursorInRange ==
    /\ proxies # <<>> => (0 <= current_index /\ current_index < Len(proxies))
    /\ last.raised # Some("IndexError")

-----------------------------------------------------------------------------
(* C24 *)

\* C24: every proxy that get_proxy returns, by itself or for an attempt of a
\* request and under any strategy, is the string in some slot of the list,
\* also after update_proxy_stats was called for a proxy that is in no slot.
C24_SelectedFromPool ==
    \A j \in 1..Len(last.sel) :
        \E i \in 1..Len(proxies) : proxies[i] = last.sel[j]

-----------------------------------------------------------------------------
(* C25 *)

\* C25: a request that allows at least one attempt on a list with at least
\* one slot issues at least one network request and does not end by
\* 'No proxies available.', also when a slot holds the empty string.
C25_NonEmptyPoolIsTried ==
    (IsRequest /\ last.before.proxies # <<>> /\ last.max_retries >= 1) =>
        /\ Len(last.net) >= 1
        /\ \A i \in 1..Len(last.out) : last.out[i] # "No proxies available."

-----------------------------------------------------------------------------
(* C26 *)

\* the call was a request by the performance strategy that found all-zero
\* statistics and a list with two different proxies, and every requests.get
\* it could make raised a caught exception
IsFailingPerformanceRequest ==
    /\ IsRequest /\ last.rotation_strategy = "performance"
    /\ AllZeroBefore
    /\ \E i \in 1..Len(last.before.proxies) : \E j \in 1..Len(last.before.proxies) :
           last.before.proxies[i] # last.before.proxies[j]
    /\ last.max_retries >= 1
    /\ FailsFirst(last.max_retries)

\* C26: such a call makes max_retries attempts, all of them through
\* proxies[0], and all its max_retries failures are counted in the record of
\* proxies[0].
C26_FailuresStayOnFirst ==
    IsFailingPerformanceRequest =>
        /\ Len(last.net) = last.max_retries
        /\ \A j \in 1..Len(last.sel) : last.sel[j] = last.before.proxies[1]
        /\ Lookup(proxy_stats, last.before.proxies[1]).failure = last.max_retries

-----------------------------------------------------------------------------
(* C27 *)

\* the call was a sequential request that found the index inside a
\* non-empty list
IsSequentialRequest ==
    /\ IsRequest /\ IsSequential
    /\ last.before.current_index < Len(last.before.proxies)

\* the call ended with a response or by 'Failed after ... retries.'
EndedInResponseOrExhaustion ==
    /\ last.raised = None
    /\ \/ last.ret[1] # None
       \/ \E i \in 1..Len(last.out) : last.out[i] = "Failed after retries."

\* C27: a sequential request that starts with the index at c in a list of N
\* proxies (c < N) and makes a attempts chooses proxies[c],
\* proxies[(c+1) mod N], ..., proxies[(c+a-1) mod N] in that order and leaves
\* the index at (c + a) mod N; when the call ends with a response or with its
\* retries used up each of these attempts issued its request, so that the
\* attempt after a caught failure goes through the next slot.
C27_RetryTakesNextSlot ==
    IsSequentialRequest =>
        LET c == last.before.current_index
            N == Len(last.before.proxies)
            a == Len(last.sel)
        IN  /\ \A j \in 1..a : last.sel[j] = last.before.proxies[((c + j - 1) % N) + 1]
            /\ current_index = (c + a) % N
            /\ EndedInResponseOrExhaustion =>
                 /\ Len(last.net) = a
                 /\ \A j \in 1..a : last.net[j] = format_proxy_for_requests(last.sel[j])

\* a call that found the index at 1 in a list of two different proxies went
\* through the second slot, failed, went through the first and got a
\* response; the index is at 1 again
C27_Witness ==
    /\ IsSequentialRequest
    /\ last.before.current_index = 1
    /\ Len(proxies) = 2 /\ proxies[1] # proxies[2]
    /\ last.sel = <<proxies[2], proxies[1]>>
    /\ FirstEnded(2, "ok")
    /\ current_index = 1

-----------------------------------------------------------------------------
(* C28 *)

\* the call was a request that allows no attempt
IsRequestWithoutRetries == IsRequest /\ last.max_retries <= 0

\* C28: request_with_proxy_rotation called with max_retries <= 0 selects no
\* proxy, issues no request and records nothing; proxies, current_index, the
\* clock and every record of proxy_stats (last_used and counts) are as the
\* call found them; and it prints 'Failed after ... retries.' and returns
\* (None, None), on an empty list as on any other.
C28_NoRetriesNoEffect ==
    IsRequestWithoutRetries =>
        /\ last.sel = <<>>
        /\ last.net = <<>>
        /\ last.upd = <<>>
        /\ ObjectUntouched
        /\ last.raised = None
        /\ last.ret = <<None, None>>
        /\ last.out = <<"Failed after retries.">>

\* a request with max_retries = 0 on an object whose list is not empty and
\* whose index had been moved to 1 by an earlier selection
C28_Witness ==
    /\ IsRequestWithoutRetries
    /\ last.max_retries = 0
    /\ last.before.proxies # <<>>
    /\ last.before.current_index = 1
    /\ \E i \in 1..Len(last.before.proxy_stats) :
           last.before.proxy_stats[i].last_used # None
    /\ last.out = <<"Failed after retries.">>

-----------------------------------------------------------------------------
(* C29 *)

\* the call was a request whose last attempt ended in an exception that line
\* 207 does not catch
EndedInUncaught == IsRequest /\ FirstEnded(Len(last.net), "other")

\* the object as the last attempt of the call found it, at line 184: as the
\* call found it and after the attempts before the last, each of which failed
BeforeLastAttempt == last.at_attempt

\* C29: when an attempt of request_with_proxy_rotation ends in an exception
\* that is not caught, the exception leaves the call and no record is added or
\* removed; success, failure and avg_response_time of every record are what
\* they were before that attempt; but the attempt's selection is not undone:
\* the chosen proxy's last_used is the time of the selection, the last_used of
\* every other record is what it was, and under the sequential strategy
\* current_index is one past (mod the length of the list) where the attempt
\* found it.
C29_UncaughtLeavesSelection ==
    EndedInUncaught =>
        LET pre == BeforeLastAttempt
            chosen == last.sel[Len(last.sel)]
        IN  /\ last.raised = Some("other")
            /\ Len(last.sel) = Len(last.net)
            /\ Len(last.upd) = Len(last.net) - 1
            /\ proxies = pre.proxies
            /\ Len(proxy_stats) = Len(pre.proxy_stats)
            /\ \A i \in 1..Len(proxy_stats) :
                 /\ proxy_stats[i].key = pre.proxy_stats[i].key
                 /\ proxy_stats[i].success = pre.proxy_stats[i].success
                 /\ proxy_stats[i].failure = pre.proxy_stats[i].failure
                 /\ proxy_stats[i].avg_response_time = pre.proxy_stats[i].avg_response_time
                 /\ proxy_stats[i].last_used =
                        IF proxy_stats[i].key = chosen THEN Some(pre.now)
                        ELSE pre.proxy_stats[i].last_used
            /\ HasKey(proxy_stats, chosen)
            /\ IF IsSequential
               THEN current_index = (pre.current_index + 1) % Len(proxies)
               ELSE current_index = pre.current_index

\* a sequential call on a list of two different proxies whose first attempt
\* failed and whose second ended in an uncaught exception: the first proxy has
\* its failure, the second has none and has last_used written
C29_Witness ==
    /\ EndedInUncaught
    /\ IsSequential
    /\ Len(last.net) = 2
    /\ Len(proxies) = 2 /\ proxies[1] # proxies[2]
    /\ last.sel = <<proxies[1], proxies[2]>>
    /\ Lookup(proxy_stats, proxies[1]).failure = 1
    /\ Lookup(proxy_stats, proxies[2]).failure = 0
    /\ Lookup(proxy_stats, proxies[2]).last_used = Some(now - 1)
    /\ current_index = 0

-----------------------------------------------------------------------------
(* C30 *)

\* the call was update_proxy_stats
IsUpdate == Called("update_proxy_stats")

\* C30: update_proxy_stats(proxy, ...) changes the record of proxy and nothing
\* else: every record the dict had under another key is where it was and as
\* it was, no record but that of proxy is added, the list, the index and the
\* clock are as before, and when proxy had a record before the call its
\* last_used is what it was.
C30_OnlyOwnRecord ==
    IsUpdate =>
        LET e == last.proxy[1]
            old == last.before.proxy_stats
        IN  /\ proxies = last.before.proxies
            /\ current_index = last.before.current_index
            /\ now = last.before.now
            /\ Len(proxy_stats) = Len(old) + (IF HasKey(old, e) THEN 0 ELSE 1)
            /\ \A i \in 1..Len(old) :
                 /\ proxy_stats[i].key = old[i].key
                 /\ old[i].key # e => proxy_stats[i] = old[i]
            /\ \A i \in 1..Len(proxy_stats) : i > Len(old) => proxy_stats[i].key = e
            /\ HasKey(old, e) =>
                 Lookup(proxy_stats, e).last_used = Lookup(old, e).last_used

\* an update for a proxy whose record had last_used written at an earlier
\* time, beside the record of another proxy: the count is added and
\* last_used is still that earlier time
C30_Witness ==
    /\ IsUpdate
    /\ HasKey(last.before.proxy_stats, last.proxy[1])
    /\ Len(last.before.proxy_stats) >= 2
    /\ StatsBefore(last.proxy[1]).last_used # None
    /\ StatsBefore(last.proxy[1]).last_used[1] < now
    /\ Lookup(proxy_stats, last.proxy[1]).last_used = StatsBefore(last.proxy[1]).last_used
    /\ Lookup(proxy_stats, last.proxy[1]).success = StatsBefore(last.proxy[1]).success + 1

====
